---- MODULE Spec2Model ----
(***************************************************************************)
(* apiserver-kit: resource registration, the strategy adapter, the status  *)
(* sub-resource split, the storage-map merge and the Builder's assembly.   *)
(*                                                                         *)
(* The specifications of this module:                                      *)
(*   SpecStrategy  one resource kind, its storage entries (Resource) and    *)
(*                 the strategy calls the serving layer makes on them       *)
(*   SpecMerge     mergeVersionedResourcesStorageMap on a heap of Go maps   *)
(*   SpecAlgebra   the merge of a map with the map of a further adapter     *)
(*   Spec          the Builder: With / WithGroupVersions, then Execute      *)
(*   SpecInformers the Builder's informer factories and post-start hook     *)
(*   SpecAdapter   the strategy adapter over every set of capabilities      *)
(*   SpecVersion   the emulation-version mapping                            *)
(*   SpecStore     GetAttrs and NewStore                                    *)
(***************************************************************************)
EXTENDS Naturals, Sequences, FiniteSets, TLC

VARIABLES
    \* -- SpecStrategy ------------------------------------------------------
    kind,       \* the capabilities of the registered resource type
    stored,     \* the object the physical store holds
    lastCall,   \* the last strategy call: its arguments and what it left
    history,    \* the spec and the status last written through each entry
    \* -- SpecMerge ---------------------------------------------------------
    heap,       \* Go's maps: outer (version -> inner ref), inner (name -> store)
    heap0,      \* the heap before the call
    ma, mb,     \* the arguments a and b (outer references)
    mc,         \* the returned map (outer reference), 0 before the call
    \* -- Spec (Builder) ----------------------------------------------------
    scheme,           \* the group-versions registered in the runtime.Scheme
    groupVersions,    \* Builder.groupVersions
    apiGroupFns,      \* Builder.apiGroupFns (the ResourceHandler behind each)
    pc,               \* where Execute is
    groupName,        \* Execute's groupName after the validation loop
    fnIdx,            \* RunE: the next apiGroupFn to invoke
    apiGroupMap,      \* RunE: group name -> VersionedResourcesStorageMap
    lastInfo,         \* RunE: the APIGroupInfo the last apiGroupFn returned
    installed,        \* the groups installed into the server, in order
    serving,          \* the server runs
    postStartHooks,   \* the post-start hooks registered with the server
    outcome,          \* "" while running, else "panic: ..." / "error: ..."
    extraAdmissionInitializers,  \* Builder.extraAdmissionInitializers
    sharedInformerFactories,     \* Builder.sharedInformerFactories
    started           \* per SharedInformerFactory, the Start calls made on it

strategyVars == <<kind, stored, lastCall, history>>
mergeVars    == <<heap, heap0, ma, mb, mc>>
informerVars == <<extraAdmissionInitializers, sharedInformerFactories, started>>
builderVars  == <<scheme, groupVersions, apiGroupFns, pc, groupName, fnIdx,
                  apiGroupMap, lastInfo, installed, serving, postStartHooks,
                  outcome, informerVars>>
vars == <<strategyVars, mergeVars, builderVars>>

(***************************************************************************)
(* Go maps as functions with a finite domain.                              *)
(***************************************************************************)
EmptyMap == [x \in {} |-> x]

Put(m, k, v) == [x \in (DOMAIN m) \cup {k} |-> IF x = k THEN v ELSE m[x]]

(***************************************************************************)
(* Resource objects: metadata (labels stand for the object metadata), a    *)
(* spec, a status, and the Flag the test type's hooks set.                 *)
(***************************************************************************)
SpecValues   == {"S0", "S1"}
StatusValues == {"T0", "T1"}
LabelValues  == {"L0", "L1"}

Objects == [spec : SpecValues, status : StatusValues, labels : LabelValues,
            flag : BOOLEAN]

\* The optional interfaces a resource type may implement.
Kinds == [status : BOOLEAN, prepareForUpdater : BOOLEAN, nameGenerator : BOOLEAN]

\* testObj.CopyStatusTo: the receiver's status is written into the target.
CopyStatusTo(t, o) == [o EXCEPT !.status = t.status]

\* A copy of the spec alone.
DeepCopyIntoSpecOnly(m, out) == [out EXCEPT !.spec = m.spec]

\* DeepCopyInto: *out = *m, every field of the receiver replaces the target's.
DeepCopyInto(m, out) == m

\* testObj.PrepareForUpdate: the type's own update hook.
PrepareForUpdate(t, old) == [t EXCEPT !.flag = TRUE]

\* nameGen.GenerateName.
GenerateName(base) == base \o "-GEN"

(***************************************************************************)
(* The strategies.  A strategy call returns the two objects as the call    *)
(* leaves them (Go passes pointers) and the capability methods it invoked. *)
(***************************************************************************)
\* rest.NewDefaultStrategy(obj, scheme, gr): the adapter wrapping the template.
NewDefaultStrategy(t) == [type |-> "DefaultStrategy", Object |-> t]

\* A default strategy that leaves the incoming status in place.
DefaultStrategy_PrepareForUpdateKeepingStatus(k, obj, old) ==
    LET obj2 == IF k.prepareForUpdater THEN PrepareForUpdate(obj, old) ELSE obj
    IN  [obj |-> obj2, old |-> old,
         trace |-> IF k.prepareForUpdater THEN <<"PrepareForUpdate">> ELSE <<>>]

\* DefaultStrategy.PrepareForUpdate: the stored status is copied onto the
\* incoming object, then the object's own PrepareForUpdater hook runs.
DefaultStrategy_PrepareForUpdate(k, obj, old) ==
    LET obj1 == IF k.status THEN CopyStatusTo(old, obj) ELSE obj
        obj2 == IF k.prepareForUpdater THEN PrepareForUpdate(obj1, old) ELSE obj1
    IN  [obj |-> obj2, old |-> old,
         trace |-> (IF k.status THEN <<"CopyStatusTo">> ELSE <<>>)
                   \o (IF k.prepareForUpdater THEN <<"PrepareForUpdate">> ELSE <<>>)]

\* A GenerateName that consults the NameGenerator only for a type that is
\* also a PrepareForUpdater.
DefaultStrategy_GenerateNameCoupled(s, base) ==
    IF s.Object.nameGenerator /\ s.Object.prepareForUpdater
    THEN GenerateName(base) ELSE base

\* DefaultStrategy.GenerateName: the wrapped object's NameGenerator, else base.
DefaultStrategy_GenerateName(s, base) ==
    IF s.Object.nameGenerator THEN GenerateName(base) ELSE base

\* An override that copies the status to old and leaves obj as it came.
statusPrepareForUpdateWithoutReset(obj, old) ==
    [obj |-> obj, old |-> CopyStatusTo(obj, old), trace |-> <<"OverrideFn">>]

\* The override Resource installs on the /status entry.
statusPrepareForUpdate(obj, old) ==
    LET old1 == CopyStatusTo(obj, old)      \* statusObj.CopyStatusTo(old)
        obj1 == DeepCopyInto(old1, obj)     \* copyableOld.DeepCopyInto(copyableObj)
    IN  [obj |-> obj1, old |-> old1, trace |-> <<"OverrideFn">>]

\* The nil func value and the nil embedded strategy.
NilFn       == "nil"
NilStrategy == [type |-> "nil"]

\* s.OverrideFn(ctx, obj, old): the override Resource installs, or the
\* closure of the strategy tests, which records its arguments and leaves the
\* objects as they are.
OverrideFn(fn, ctx, obj, old) ==
    IF fn = "statusPrepareForUpdate" THEN statusPrepareForUpdate(obj, old)
    ELSE [obj |-> obj, old |-> old, trace |-> <<"OverrideFn">>]

\* A decorator that runs the embedded strategy before the override.
PrepareForUpdaterStrategy_PrepareForUpdateInnerFirst(s, k, ctx, obj, old) ==
    IF s.OverrideFn = NilFn
    THEN [obj |-> obj, old |-> old, trace |-> <<>>, got |-> <<>>]
    ELSE LET r1 == DefaultStrategy_PrepareForUpdate(k, obj, old)
             r2 == OverrideFn(s.OverrideFn, ctx, r1.obj, r1.old)
         IN  [obj |-> r2.obj, old |-> r2.old, trace |-> r1.trace \o r2.trace,
              got |-> <<[ctx |-> ctx, obj |-> r1.obj, old |-> r1.old]>>]

\* PrepareForUpdaterStrategy.PrepareForUpdate: nothing with a nil OverrideFn;
\* else OverrideFn, then the PrepareForUpdate of the embedded strategy (a
\* DefaultStrategy).  `got` is what OverrideFn was invoked with.
PrepareForUpdaterStrategy_PrepareForUpdate(s, k, ctx, obj, old) ==
    IF s.OverrideFn = NilFn
    THEN [obj |-> obj, old |-> old, trace |-> <<>>, got |-> <<>>]
    ELSE LET r1 == OverrideFn(s.OverrideFn, ctx, obj, old)
             r2 == DefaultStrategy_PrepareForUpdate(k, r1.obj, r1.old)
         IN  [obj |-> r2.obj, old |-> r2.old, trace |-> r1.trace \o r2.trace,
              got |-> <<[ctx |-> ctx, obj |-> obj, old |-> old]>>]

\* A dispatch that runs the undecorated strategy for every entry.
UpdateStrategy_PrepareForUpdateUndecorated(s, k, ctx, obj, old) ==
    DefaultStrategy_PrepareForUpdate(k, obj, old)

\* The dynamic dispatch of store.UpdateStrategy.PrepareForUpdate(ctx, obj, old).
UpdateStrategy_PrepareForUpdate(s, k, ctx, obj, old) ==
    IF s.type = "PrepareForUpdaterStrategy"
    THEN PrepareForUpdaterStrategy_PrepareForUpdate(s, k, ctx, obj, old)
    ELSE DefaultStrategy_PrepareForUpdate(k, obj, old)

(***************************************************************************)
(* The store factory and the storage entries of one registration.          *)
(***************************************************************************)
\* NewStore's (nil, err): no adapter.
NilStore == [isNil |-> TRUE]

\* strategy.(SingularNameProvider) and GetSingularName(): the strategy has the
\* capability when the type it wraps has it.
GetSingularName(strategy) ==
    IF "singularName" \in DOMAIN strategy.Object
    THEN [ok |-> TRUE, name |-> strategy.Object.singularName]
    ELSE [ok |-> FALSE, name |-> ""]

\* strategy.(ShortNamesProvider) and ShortNames().
ShortNames(strategy) ==
    IF "shortNames" \in DOMAIN strategy.Object
    THEN [ok |-> TRUE, names |-> strategy.Object.shortNames]
    ELSE [ok |-> FALSE, names |-> <<>>]

\* Store.CompleteWithOptions(options): binds the physical store the options
\* resolver gives for the resource, or fails.
CompleteWithOptions(store, optsOk, ptr) ==
    IF optsOk
    THEN [err |-> FALSE,
          store |-> [store EXCEPT !.backend = <<store.DefaultQualifiedResource, ptr>>]]
    ELSE [err |-> TRUE, store |-> store]

\* A NewStore that takes the singular name of the strategy as it comes.
NewStoreSingularUnchecked(gr, strategy, optsOk, ptr) ==
    LET c == CompleteWithOptions(
                 [DefaultQualifiedResource  |-> gr,
                  SingularQualifiedResource |->
                      IF GetSingularName(strategy).ok
                      THEN [Group |-> gr.Group, Resource |-> GetSingularName(strategy).name]
                      ELSE gr,
                  PredicateFunc  |-> strategy, TableConvertor |-> strategy,
                  CreateStrategy |-> strategy, UpdateStrategy |-> strategy,
                  DeleteStrategy |-> strategy,
                  backend |-> <<>>, ptr |-> <<ptr, "store">>], optsOk, ptr)
    IN  IF c.err THEN [err |-> TRUE, store |-> NilStore]
        ELSE IF ShortNames(strategy).ok /\ Len(ShortNames(strategy).names) > 0
        THEN [err |-> FALSE,
              store |-> [Store |-> c.store, shortNames |-> ShortNames(strategy).names]]
        ELSE [err |-> FALSE, store |-> c.store]

\* A NewStore that never wraps the store.
NewStoreUnwrapped(gr, strategy, optsOk, ptr) ==
    LET sn == GetSingularName(strategy)
        c  == CompleteWithOptions(
                 [DefaultQualifiedResource  |-> gr,
                  SingularQualifiedResource |->
                      IF sn.ok /\ sn.name # ""
                      THEN [Group |-> gr.Group, Resource |-> sn.name] ELSE gr,
                  PredicateFunc  |-> strategy, TableConvertor |-> strategy,
                  CreateStrategy |-> strategy, UpdateStrategy |-> strategy,
                  DeleteStrategy |-> strategy,
                  backend |-> <<>>, ptr |-> <<ptr, "store">>], optsOk, ptr)
    IN  IF c.err THEN [err |-> TRUE, store |-> NilStore]
        ELSE [err |-> FALSE, store |-> c.store]

\* A NewStore that returns the wrapped store whether or not it was completed.
NewStoreWrappedUnchecked(gr, strategy, optsOk, ptr) ==
    LET sn == GetSingularName(strategy)
        store == [DefaultQualifiedResource  |-> gr,
                  SingularQualifiedResource |->
                      IF sn.ok /\ sn.name # ""
                      THEN [Group |-> gr.Group, Resource |-> sn.name] ELSE gr,
                  PredicateFunc  |-> strategy, TableConvertor |-> strategy,
                  CreateStrategy |-> strategy, UpdateStrategy |-> strategy,
                  DeleteStrategy |-> strategy,
                  backend |-> <<>>, ptr |-> <<ptr, "store">>]
        c == CompleteWithOptions(store, optsOk, ptr)
    IN  IF ShortNames(strategy).ok /\ Len(ShortNames(strategy).names) > 0
        THEN [err |-> FALSE,
              store |-> [Store |-> c.store, shortNames |-> ShortNames(strategy).names]]
        ELSE IF c.err THEN [err |-> TRUE, store |-> NilStore]
        ELSE [err |-> FALSE, store |-> c.store]

\* rest.NewStore: the genericregistry.Store wired to the strategy, with the
\* strategy's singular name when it has one, wrapped when the strategy has
\* short names; (nil, err) when the options resolver cannot complete it.
\* `ptr` is the address of the allocated Store.
NewStore(gr, strategy, optsOk, ptr) ==
    LET store0 == [DefaultQualifiedResource  |-> gr,
                   SingularQualifiedResource |-> gr,
                   PredicateFunc  |-> strategy,
                   TableConvertor |-> strategy,
                   CreateStrategy |-> strategy,
                   UpdateStrategy |-> strategy,
                   DeleteStrategy |-> strategy,
                   backend |-> <<>>,
                   ptr |-> <<ptr, "store">>]
        sn     == GetSingularName(strategy)
        store  == IF sn.ok /\ sn.name # ""
                  THEN [store0 EXCEPT !.SingularQualifiedResource =
                                          [Group |-> gr.Group, Resource |-> sn.name]]
                  ELSE store0
        short  == ShortNames(strategy)
        c      == CompleteWithOptions(store, optsOk, ptr)
    IN  IF short.ok /\ Len(short.names) > 0
        THEN IF c.err THEN [err |-> TRUE, store |-> NilStore]
             ELSE [err |-> FALSE, store |-> [Store |-> c.store, shortNames |-> short.names]]
        ELSE IF c.err THEN [err |-> TRUE, store |-> NilStore]
             ELSE [err |-> FALSE, store |-> c.store]

\* storeWithShortNames.ShortNames: what the adapter reports to the serving layer.
StoreShortNames(store) ==
    IF "shortNames" \in DOMAIN store THEN [ok |-> TRUE, names |-> store.shortNames]
    ELSE [ok |-> FALSE, names |-> <<>>]

\* rest.Unwrap: the *registry.Store behind a storage entry.
Unwrap(store) == IF "Store" \in DOMAIN store THEN store.Store ELSE store

\* A storage map that never holds the /status entry.
StorageWithoutStatus(t, store) == Put(EmptyMap, t.gr.Resource, store)

\* A storage map whose /status entry is the main store itself, decorated.
ResourceStorageAliased(t, store) ==
    LET base == Unwrap(store)
        statusStore == [base EXCEPT !.UpdateStrategy =
                           [type |-> "PrepareForUpdaterStrategy",
                            RESTUpdateStrategy |-> base.UpdateStrategy,
                            OverrideFn |-> "statusPrepareForUpdate"]]
        main == IF "Store" \in DOMAIN store THEN [store EXCEPT !.Store = statusStore]
                ELSE statusStore
    IN  IF t.status
        THEN Put(Put(EmptyMap, t.gr.Resource, main), t.gr.Resource \o "/status", statusStore)
        ELSE Put(EmptyMap, t.gr.Resource, store)

\* Resource's closure, the storage map: the main entry and, for a type with
\* the status capability, the <resource>/status entry.
ResourceStorage(t, store) ==
    LET storage == Put(EmptyMap, t.gr.Resource, store)
        base == Unwrap(store)
        \* statusStore := *rest.Unwrap(store): a copy at its own address
        statusStore == [base EXCEPT !.ptr = <<base.ptr[1], "statusStore">>,
                                    !.UpdateStrategy =
                           [type |-> "PrepareForUpdaterStrategy",
                            RESTUpdateStrategy |-> base.UpdateStrategy,
                            OverrideFn |-> "statusPrepareForUpdate"]]
    IN  IF t.status
        THEN Put(storage, t.gr.Resource \o "/status", statusStore)
        ELSE storage

(***************************************************************************)
(* SpecStrategy: one registered kind and the calls made on its entries.    *)
(***************************************************************************)
\* The template of the strategy tests: testObj's group-resource.
TestTemplate(k) == [gr |-> [Group |-> "arc", Resource |-> "testobjs"],
                    status |-> k.status,
                    prepareForUpdater |-> k.prepareForUpdater,
                    nameGenerator |-> k.nameGenerator]

\* The storage entries Resource creates for the kind.
KindStorage(k) ==
    ResourceStorage(TestTemplate(k),
                    NewStore(TestTemplate(k).gr, NewDefaultStrategy(TestTemplate(k)), TRUE, 1).store)

BaseNames == {"", "base", "x"}

NoObject == [spec |-> "S0", status |-> "T0", labels |-> "L0", flag |-> FALSE]

NoCall == [op |-> "none", via |-> "", in |-> NoObject, old |-> NoObject,
           obj |-> NoObject, oldAfter |-> NoObject, trace |-> <<>>,
           base |-> "", name |-> "", arg |-> "none", ret |-> "none"]

NoKind == [status |-> FALSE, prepareForUpdater |-> FALSE, nameGenerator |-> FALSE]

\* The history of an object no update was committed on.
NoHistory(o) == [spec |-> o.spec, status |-> o.status, main |-> FALSE, sub |-> FALSE]

\* The history after an update with object `in` was committed through `name`.
Committed(h, name, in) ==
    IF name = "testobjs" THEN [h EXCEPT !.spec = in.spec, !.main = TRUE]
    ELSE [h EXCEPT !.status = in.status, !.sub = TRUE]

\* The serving layer updates the stored object through storage entry `name`:
\* the entry's update strategy prepares (obj, old) and obj is committed.
Update(name, in) ==
    /\ name \in DOMAIN KindStorage(kind)
    /\ LET s == Unwrap(KindStorage(kind)[name]).UpdateStrategy
           r == UpdateStrategy_PrepareForUpdate(s, kind, "request", in, stored)
       IN  /\ stored' = r.obj
           /\ lastCall' = [NoCall EXCEPT !.op = "update", !.via = name, !.in = in,
                                         !.old = stored, !.obj = r.obj,
                                         !.oldAfter = r.old, !.trace = r.trace]
           /\ history' = Committed(history, name, in)
    /\ UNCHANGED <<kind, mergeVars, builderVars>>

\* The contexts of a call.
CtxValues == {"background", "request"}

\* The decorators called: the zero value, one without an override, the one
\* of the strategy tests and the one of a /status entry.
DecoratorValues(k) ==
    {[type |-> "PrepareForUpdaterStrategy", RESTUpdateStrategy |-> NilStrategy,
      OverrideFn |-> NilFn]}
    \cup [type : {"PrepareForUpdaterStrategy"},
          RESTUpdateStrategy : {NewDefaultStrategy(TestTemplate(k))},
          OverrideFn : {NilFn, "record", "statusPrepareForUpdate"}]

\* A PrepareForUpdaterStrategy is asked to prepare an update of the stored
\* object; nothing is committed.
PrepareForUpdaterStrategyCall(s, ctx, in) ==
    /\ lastCall.op = "none"
    /\ LET r == PrepareForUpdaterStrategy_PrepareForUpdate(s, kind, ctx, in, stored)
       IN  lastCall' = [NoCall EXCEPT !.op = "PrepareForUpdaterStrategy.PrepareForUpdate",
                                      !.arg = [s |-> s, ctx |-> ctx],
                                      !.in = in, !.old = stored, !.obj = r.obj,
                                      !.oldAfter = r.old, !.trace = r.trace,
                                      !.ret = r.got]
    /\ UNCHANGED <<kind, stored, history, mergeVars, builderVars>>

\* The override of a /status entry is run on an incoming object and the
\* stored one; nothing is committed.
statusPrepareForUpdateCall(in) ==
    /\ lastCall.op = "none"
    /\ kind.status
    /\ LET r == statusPrepareForUpdate(in, stored)
       IN  lastCall' = [NoCall EXCEPT !.op = "statusPrepareForUpdate",
                                      !.in = in, !.old = stored, !.obj = r.obj,
                                      !.oldAfter = r.old, !.trace = r.trace]
    /\ UNCHANGED <<kind, stored, history, mergeVars, builderVars>>

\* The serving layer asks the create strategy for a generated name.
GenerateNameCall(base) ==
    /\ lastCall' = [NoCall EXCEPT !.op = "GenerateName", !.base = base,
                       !.name = DefaultStrategy_GenerateName(
                                    KindStorage(kind)["testobjs"].CreateStrategy, base)]
    /\ UNCHANGED <<kind, stored, history, mergeVars, builderVars>>

(***************************************************************************)
(* mergeVersionedResourcesStorageMap on a heap.  A Go map is a reference:  *)
(* heap.outer[r] is the map[string]map[string]rest.Storage behind outer    *)
(* reference r (version -> inner reference), heap.inner[i] the             *)
(* map[string]rest.Storage behind inner reference i (name -> store).       *)
(***************************************************************************)
Versions      == {"v1", "v2"}
ResourceNames == {"pods", "services"}
NumStores     == 2
Stores        == 1..NumStores

EmptyHeap == [outer |-> <<>>, inner |-> <<>>]

\* The value of the map behind outer reference r: version -> (name -> store).
Deref(h, r) == [v \in DOMAIN h.outer[r] |-> h.inner[h.outer[r][v]]]

\* The (version, resource-name) keys of a map value.
Keys(m) == UNION {{<<v, n>> : n \in DOMAIN m[v]} : v \in DOMAIN m}

\* A copy loop that keeps an entry c[version] already holds.
RECURSIVE CopyResourcesKeeping(_, _, _, _)
CopyResourcesKeeping(h, dst, src, todo) ==
    IF todo = {} THEN h
    ELSE LET n  == CHOOSE x \in todo : TRUE
             h1 == IF n \in DOMAIN h.inner[dst] THEN h
                   ELSE [h EXCEPT !.inner[dst] = Put(h.inner[dst], n, h.inner[src][n])]
         IN  CopyResourcesKeeping(h1, dst, src, todo \ {n})

\* for resource, store := range storeMap { c[version][resource] = store }
RECURSIVE CopyResources(_, _, _, _)
CopyResources(h, dst, src, todo) ==
    IF todo = {} THEN h
    ELSE LET n  == CHOOSE x \in todo : TRUE
             h1 == [h EXCEPT !.inner[dst] = Put(h.inner[dst], n, h.inner[src][n])]
         IN  CopyResources(h1, dst, src, todo \ {n})

\* A merge loop that stores the input's inner map in c instead of a new one.
RECURSIVE MergeIntoSharing(_, _, _, _)
MergeIntoSharing(h, c, m, todo) ==
    IF todo = {} THEN h
    ELSE LET v  == CHOOSE x \in todo : TRUE
             storeMap == h.outer[m][v]
             h1 == IF v \in DOMAIN h.outer[c] THEN h
                   ELSE [h EXCEPT !.outer[c] = Put(h.outer[c], v, storeMap)]
             h2 == CopyResources(h1, h1.outer[c][v], storeMap, DOMAIN h1.inner[storeMap])
         IN  MergeIntoSharing(h2, c, m, todo \ {v})

\* A merge loop that replaces c[version] by a new map on every version it visits.
RECURSIVE MergeIntoReplacing(_, _, _, _)
MergeIntoReplacing(h, c, m, todo) ==
    IF todo = {} THEN h
    ELSE LET v  == CHOOSE x \in todo : TRUE
             storeMap == h.outer[m][v]
             h1 == [h EXCEPT !.inner = Append(h.inner, EmptyMap),
                             !.outer[c] = Put(h.outer[c], v, Len(h.inner) + 1)]
             h2 == CopyResources(h1, h1.outer[c][v], storeMap, DOMAIN h1.inner[storeMap])
         IN  MergeIntoReplacing(h2, c, m, todo \ {v})

\* A merge loop that creates c[version] only when it has a resource to copy.
RECURSIVE MergeIntoSkippingEmpty(_, _, _, _)
MergeIntoSkippingEmpty(h, c, m, todo) ==
    IF todo = {} THEN h
    ELSE LET v  == CHOOSE x \in todo : TRUE
             storeMap == h.outer[m][v]
             h1 == IF v \in DOMAIN h.outer[c] \/ h.inner[storeMap] = EmptyMap THEN h
                   ELSE [h EXCEPT !.inner = Append(h.inner, EmptyMap),
                                  !.outer[c] = Put(h.outer[c], v, Len(h.inner) + 1)]
             h2 == IF v \in DOMAIN h1.outer[c]
                   THEN CopyResources(h1, h1.outer[c][v], storeMap, DOMAIN h1.inner[storeMap])
                   ELSE h1
         IN  MergeIntoSkippingEmpty(h2, c, m, todo \ {v})

\* One loop of the merge, over the versions `todo` of input m:
\*   for version, storeMap := range m {
\*       if _, ok := c[version]; !ok { c[version] = map[string]rest.Storage{} }
\*       for resource, store := range storeMap { c[version][resource] = store } }
RECURSIVE MergeInto(_, _, _, _)
MergeInto(h, c, m, todo) ==
    IF todo = {} THEN h
    ELSE LET v  == CHOOSE x \in todo : TRUE
             storeMap == h.outer[m][v]
             h1 == IF v \in DOMAIN h.outer[c] THEN h
                   ELSE [h EXCEPT !.inner = Append(h.inner, EmptyMap),
                                  !.outer[c] = Put(h.outer[c], v, Len(h.inner) + 1)]
             h2 == CopyResources(h1, h1.outer[c][v], storeMap, DOMAIN h1.inner[storeMap])
         IN  MergeInto(h2, c, m, todo \ {v})

\* A merge that copies b first and a over it.
mergeVersionedResourcesStorageMapFirstWins(h, a, b) ==
    LET c  == Len(h.outer) + 1
        h0 == [h EXCEPT !.outer = Append(h.outer, EmptyMap)]
        h1 == MergeInto(h0, c, b, DOMAIN h0.outer[b])
        h2 == MergeInto(h1, c, a, DOMAIN h1.outer[a])
    IN  [heap |-> h2, ret |-> c]

\* A merge that takes from b only the versions a has.
mergeVersionedResourcesStorageMapKnownVersions(h, a, b) ==
    LET c  == Len(h.outer) + 1
        h0 == [h EXCEPT !.outer = Append(h.outer, EmptyMap)]
        h1 == MergeInto(h0, c, a, DOMAIN h0.outer[a])
        h2 == MergeInto(h1, c, b, (DOMAIN h1.outer[b]) \cap (DOMAIN h1.outer[a]))
    IN  [heap |-> h2, ret |-> c]

\* c := map[...]{}; the loop over a; the loop over b; return c.
mergeVersionedResourcesStorageMap(h, a, b) ==
    LET c  == Len(h.outer) + 1
        h0 == [h EXCEPT !.outer = Append(h.outer, EmptyMap)]
        h1 == MergeInto(h0, c, a, DOMAIN h0.outer[a])
        h2 == MergeInto(h1, c, b, DOMAIN h1.outer[b])
    IN  [heap |-> h2, ret |-> c]

(***************************************************************************)
(* SpecMerge: the inputs are drawn, then the function is called once.      *)
(***************************************************************************)
InnerValues == UNION {[D -> Stores] : D \in SUBSET ResourceNames}
OuterValues == UNION {[D -> InnerValues] : D \in SUBSET Versions}

\* A map literal placed on the heap.  With `shared`, every version holds the
\* same inner map (as Resource builds its contribution); else one map each.
RECURSIVE AllocVersions(_, _, _, _, _)
AllocVersions(h, r, m, shared, todo) ==
    IF todo = {} THEN h
    ELSE LET v  == CHOOSE x \in todo : TRUE
             reuse == shared /\ h.outer[r] # EmptyMap
             i  == IF reuse THEN h.outer[r][CHOOSE x \in DOMAIN h.outer[r] : TRUE]
                   ELSE Len(h.inner) + 1
             h1 == [h EXCEPT !.inner = IF reuse THEN @ ELSE Append(@, m[v]),
                             !.outer[r] = Put(@, v, i)]
         IN  AllocVersions(h1, r, m, shared, todo \ {v})

AllocMap(h, m, shared) ==
    AllocVersions([h EXCEPT !.outer = Append(@, EmptyMap)], Len(h.outer) + 1,
                  m, shared, DOMAIN m)

\* Whether a map value can be built with one inner map for all its versions.
CanShare(m) == Cardinality(DOMAIN m) > 1 /\ \A v, w \in DOMAIN m : m[v] = m[w]

Merge ==
    /\ mc = 0
    /\ LET r == mergeVersionedResourcesStorageMap(heap, ma, mb)
       IN  heap' = r.heap /\ mc' = r.ret
    /\ UNCHANGED <<heap0, ma, mb, strategyVars, builderVars>>

(***************************************************************************)
(* Resource registration and the Builder.                                  *)
(***************************************************************************)
GV(g, v) == [Group |-> g, Version |-> v]

\* The group-versions a caller passes, and the ones a Scheme may hold.
GroupVersionValues == {GV("a", "v1"), GV("a", "v2"), GV("b", "v1"), GV("", "v1")}

\* The Schemes the server is started with: the example's (its own group, the
\* unversioned "" group, one more group) and one holding a single version.
SchemeValues == {GroupVersionValues, {GV("a", "v1")}}

\* The resource types registered: two kinds of group "a" with the status
\* capability, one of them with short names, and a kind of group "b".
Template(g, r, st) == [gr |-> [Group |-> g, Resource |-> r], status |-> st,
                       prepareForUpdater |-> FALSE, nameGenerator |-> FALSE]

\* A type that also has short names.
WithShortNames(t, names) ==
    [gr |-> t.gr, status |-> t.status, prepareForUpdater |-> t.prepareForUpdater,
     nameGenerator |-> t.nameGenerator, shortNames |-> names]

Templates == {Template("a", "foos", TRUE),
              WithShortNames(Template("a", "bars", TRUE), <<"br">>),
              Template("b", "foos", FALSE)}

MaxHandlers      == 2
MaxGroupVersions == 2
MaxHandlerGVs    == 2

SeqsUpTo(S, n) == UNION {[1..k -> S] : k \in 0..n}

\* scheme.PrioritizedVersionsForGroup(g): the versions registered for g.
PrioritizedVersionsForGroup(sch, g) == {gv \in sch : gv.Group = g}

\* server.NewDefaultAPIGroupInfo(group, scheme, ...).
NewDefaultAPIGroupInfo(sch, g) ==
    [PrioritizedVersions |-> PrioritizedVersionsForGroup(sch, g),
     VersionedResourcesStorageMap |-> EmptyMap]

\* A registration loop that accepts every group-version.
RECURSIVE RegisterVersionsUnchecked(_, _, _, _)
RegisterVersionsUnchecked(info, storage, gr, gvs) ==
    IF gvs = <<>> THEN [panic |-> "", info |-> info]
    ELSE RegisterVersionsUnchecked(
             [info EXCEPT !.VersionedResourcesStorageMap = Put(@, Head(gvs).Version, storage)],
             storage, gr, Tail(gvs))

\* for _, gv := range gvs { if gv.Group != gr.Group { panic(...) }
\*                          apiGroupInfo.VersionedResourcesStorageMap[gv.Version] = storage }
RECURSIVE RegisterVersions(_, _, _, _)
RegisterVersions(info, storage, gr, gvs) ==
    IF gvs = <<>> THEN [panic |-> "", info |-> info]
    ELSE IF Head(gvs).Group # gr.Group
    THEN [panic |-> "unexpected group mismatch", info |-> info]
    ELSE RegisterVersions(
             [info EXCEPT !.VersionedResourcesStorageMap = Put(@, Head(gvs).Version, storage)],
             storage, gr, Tail(gvs))

\* The apiGroupFn of Resource(obj, gvs...), invoked by RunE: rh = [t, gvs],
\* optsOk says whether the options resolver completes the store, ptr is the
\* address NewStore allocates at.
apiGroupFn(rh, sch, optsOk, ptr) ==
    LET gr == rh.t.gr
        st == NewStore(gr, NewDefaultStrategy(rh.t), optsOk, ptr)
    IN  IF st.err
        THEN [panic |-> "NewStore failed", info |-> NewDefaultAPIGroupInfo(sch, gr.Group)]
        ELSE RegisterVersions(NewDefaultAPIGroupInfo(sch, gr.Group),
                              ResourceStorage(rh.t, st.store), gr, rh.gvs)

\* Resource(obj, gvs...): the handler.
Resource(t, gvs) == [t |-> t, gvs |-> gvs]

\* Execute's validation loop:
\*   groupName := ""
\*   for _, gv := range b.groupVersions {
\*       if groupName != "" && groupName != gv.Group { panic(...) }
\*       groupName = gv.Group }
RECURSIVE ValidateGroups(_, _)
ValidateGroups(gvs, name) ==
    IF gvs = <<>> THEN [panic |-> FALSE, groupName |-> name]
    ELSE IF name # "" /\ name # Head(gvs).Group
    THEN [panic |-> TRUE, groupName |-> name]
    ELSE ValidateGroups(Tail(gvs), Head(gvs).Group)

\* A merge that keeps only the map of the later registration.
MergedStorageMapReplacing(prev, new) == new

\* The merge as RunE uses it, on the values of the two maps.
MergedStorageMap(prev, new) ==
    LET h1 == AllocMap(EmptyHeap, prev, FALSE)
        h2 == AllocMap(h1, new, FALSE)
        r  == mergeVersionedResourcesStorageMap(h2, 1, 2)
    IN  Deref(r.heap, r.ret)

\* The SharedInformerFactories a caller has, the one of the server's own
\* configuration, and the nil interface value.
Factories   == {"f1", "f2"}
CoreFactory == "serverConfig.SharedInformerFactory"
NilFactory  == "nil"

\* An ExtraAdmissionInitializers callback by what it returns; none is set.
NoCallback == [set |-> FALSE, factory |-> NilFactory, err |-> FALSE]

CallbackValues == [set : {TRUE}, factory : Factories \cup {NilFactory}, err : BOOLEAN]

NoneStarted == [f \in Factories \cup {CoreFactory} |-> 0]

NoInfo == [called |-> FALSE, rh |-> [t |-> Template("", "", FALSE), gvs |-> <<>>],
           info |-> [PrioritizedVersions |-> {}, VersionedResourcesStorageMap |-> EmptyMap]]

execVars == <<pc, groupName, fnIdx, apiGroupMap, lastInfo, installed, serving,
              postStartHooks, outcome>>

\* Builder.WithGroupVersions(gvs...).
WithGroupVersions(gvs) ==
    /\ pc = "build"
    /\ Len(groupVersions) + Len(gvs) <= MaxGroupVersions
    /\ groupVersions' = groupVersions \o gvs
    /\ UNCHANGED <<scheme, apiGroupFns, execVars, informerVars, strategyVars, mergeVars>>

\* Builder.With(rh): WithAPIGroupFn(rh.apiGroupFn), WithGroupVersions(rh.groupVersions...).
With(rh) ==
    /\ pc = "build"
    /\ Len(apiGroupFns) < MaxHandlers
    /\ Len(groupVersions) + Len(rh.gvs) <= MaxGroupVersions
    /\ apiGroupFns' = Append(apiGroupFns, rh)
    /\ groupVersions' = groupVersions \o rh.gvs
    /\ UNCHANGED <<scheme, execVars, informerVars, strategyVars, mergeVars>>

MaxFactories == 2

\* Builder.WithSharedInformerFactory(f): a nil f is ignored.
WithSharedInformerFactory(f) ==
    /\ pc = "build"
    /\ Len(sharedInformerFactories) < MaxFactories
    /\ sharedInformerFactories' = IF f = NilFactory THEN sharedInformerFactories
                                  ELSE Append(sharedInformerFactories, f)
    /\ UNCHANGED <<scheme, groupVersions, apiGroupFns, execVars,
                   extraAdmissionInitializers, started, strategyVars, mergeVars>>

\* Builder.WithExtraAdmissionInitializers(f): a nil f is ignored.
WithExtraAdmissionInitializers(f) ==
    /\ pc = "build"
    /\ extraAdmissionInitializers' = IF f.set THEN f ELSE extraAdmissionInitializers
    /\ UNCHANGED <<scheme, groupVersions, apiGroupFns, execVars,
                   sharedInformerFactories, started, strategyVars, mergeVars>>

Fail(msg) == pc' = "done" /\ outcome' = msg

\* Execute, up to cli.Run: the group validation.
Execute ==
    /\ pc = "build"
    /\ LET r == ValidateGroups(groupVersions, "")
       IN  IF r.panic
           THEN /\ Fail("panic: all exposed resources expected to have the same group")
                /\ UNCHANGED groupName
           ELSE pc' = "run" /\ groupName' = r.groupName /\ UNCHANGED outcome
    /\ UNCHANGED <<scheme, groupVersions, apiGroupFns, fnIdx, apiGroupMap, lastInfo,
                   installed, serving, postStartHooks,
                   informerVars, strategyVars, mergeVars>>

\* RunE up to completedConfig.New: the orderedGroupVersions check, then the
\* validation, recommendedOptions.ApplyTo, which invokes the wrapper Execute
\* put around the ExtraAdmissionInitializers callback, and the server
\* construction; the validation and the construction may fail.
RunE_Configure ==
    /\ pc = "run"
    /\ \E failAt \in {"none", "Validate", "New"} :
          LET cb == extraAdmissionInitializers
          IN  IF PrioritizedVersionsForGroup(scheme, groupName) = {}
              THEN /\ Fail("error: orderedGroupVersions not set on Builder")
                   /\ UNCHANGED sharedInformerFactories
              ELSE IF failAt = "Validate"
              THEN Fail("error: configuration") /\ UNCHANGED sharedInformerFactories
              ELSE /\ sharedInformerFactories' =
                         IF cb.set /\ ~cb.err
                         THEN Append(sharedInformerFactories, cb.factory)
                         ELSE sharedInformerFactories
                   /\ IF (cb.set /\ cb.err) \/ failAt = "New"
                      THEN Fail("error: configuration")
                      ELSE pc' = "groups" /\ UNCHANGED outcome
    /\ UNCHANGED <<scheme, groupVersions, apiGroupFns, groupName, fnIdx, apiGroupMap,
                   lastInfo, installed, serving, postStartHooks,
                   extraAdmissionInitializers, started, strategyVars, mergeVars>>

\* A group name that is never empty.
InfoGroupNameOrUnnamed(info) ==
    IF \A gv \in info.PrioritizedVersions : gv.Group = "" THEN "unnamed"
    ELSE (CHOOSE gv \in info.PrioritizedVersions : gv.Group # "").Group

\* groupName := ""; for _, gv := range apiGroupInfo.PrioritizedVersions {
\*     groupName = gv.Group; break }
InfoGroupName(info) ==
    IF info.PrioritizedVersions = {} THEN ""
    ELSE (CHOOSE gv \in info.PrioritizedVersions : TRUE).Group

\* RunE, one round of the loop over b.apiGroupFns.
RunE_BuildGroup ==
    /\ pc = "groups"
    /\ fnIdx <= Len(apiGroupFns)
    /\ \E optsOk \in BOOLEAN :
          LET r == apiGroupFn(apiGroupFns[fnIdx], scheme, optsOk, fnIdx)
              g == InfoGroupName(r.info)
              vsm == r.info.VersionedResourcesStorageMap
          IN  IF r.panic # ""
              THEN Fail("panic: " \o r.panic) /\ UNCHANGED <<fnIdx, apiGroupMap, lastInfo>>
              ELSE /\ lastInfo' = [called |-> TRUE, rh |-> apiGroupFns[fnIdx], info |-> r.info]
                   /\ IF g = ""
                      THEN Fail("error: empty group name is not allowed")
                           /\ UNCHANGED <<fnIdx, apiGroupMap>>
                      ELSE /\ apiGroupMap' =
                                 IF g \in DOMAIN apiGroupMap
                                 THEN Put(apiGroupMap, g, MergedStorageMap(apiGroupMap[g], vsm))
                                 ELSE Put(apiGroupMap, g, vsm)
                           /\ fnIdx' = fnIdx + 1
                           /\ UNCHANGED <<pc, outcome>>
    /\ UNCHANGED <<scheme, groupVersions, apiGroupFns, groupName, installed, serving,
                   postStartHooks, informerVars, strategyVars, mergeVars>>

\* A loop over b.apiGroupFns that may be left before its end.
RunE_GroupsBuiltEarly ==
    /\ pc = "groups"
    /\ pc' = "install"
    /\ UNCHANGED <<scheme, groupVersions, apiGroupFns, groupName, fnIdx, apiGroupMap,
                   lastInfo, installed, serving, postStartHooks, outcome,
                   informerVars, strategyVars, mergeVars>>

\* RunE: the loop over b.apiGroupFns is over.
RunE_GroupsBuilt ==
    /\ pc = "groups"
    /\ fnIdx > Len(apiGroupFns)
    /\ pc' = "install"
    /\ UNCHANGED <<scheme, groupVersions, apiGroupFns, groupName, fnIdx, apiGroupMap,
                   lastInfo, installed, serving, postStartHooks, outcome,
                   informerVars, strategyVars, mergeVars>>

InstalledGroups == {installed[i] : i \in 1..Len(installed)}

\* RunE: server.InstallAPIGroup for the next group of apiGroupMap (Go ranges
\* over the map in any order); the installation may fail.
RunE_Install ==
    /\ pc = "install"
    /\ \E g \in (DOMAIN apiGroupMap) \ InstalledGroups : \E ok \in BOOLEAN :
          IF ok THEN installed' = Append(installed, g) /\ UNCHANGED <<pc, outcome>>
          ELSE Fail("error: InstallAPIGroup") /\ UNCHANGED installed
    /\ UNCHANGED <<scheme, groupVersions, apiGroupFns, groupName, fnIdx, apiGroupMap,
                   lastInfo, serving, postStartHooks,
                   informerVars, strategyVars, mergeVars>>

\* The name of the hook that starts the informers.
InformersHook == "start-server-informers"

\* RunE: the install loop is over, AddPostStartHookOrDie.
RunE_AddPostStartHook ==
    /\ pc = "install"
    /\ (DOMAIN apiGroupMap) \ InstalledGroups = {}
    /\ pc' = "hook" /\ postStartHooks' = postStartHooks \cup {InformersHook}
    /\ UNCHANGED <<scheme, groupVersions, apiGroupFns, groupName, fnIdx, apiGroupMap,
                   lastInfo, installed, serving, outcome,
                   informerVars, strategyVars, mergeVars>>

\* RunE: server.PrepareRun().RunWithContext(ctx); the server may fail to run.
RunE_Serve ==
    /\ pc = "hook"
    /\ \E ok \in BOOLEAN :
          IF ok THEN pc' = "serving" /\ serving' = TRUE /\ UNCHANGED outcome
          ELSE Fail("error: RunWithContext") /\ UNCHANGED serving
    /\ UNCHANGED <<scheme, groupVersions, apiGroupFns, groupName, fnIdx, apiGroupMap,
                   lastInfo, installed, postStartHooks,
                   informerVars, strategyVars, mergeVars>>

\* The loop of the post-start hook over b.sharedInformerFactories: Start on
\* each, a call on the nil interface value panics.
RECURSIVE StartFactories(_, _)
StartFactories(fs, st) ==
    IF fs = <<>> THEN [panic |-> FALSE, started |-> st]
    ELSE IF Head(fs) = NilFactory THEN [panic |-> TRUE, started |-> st]
    ELSE StartFactories(Tail(fs), [st EXCEPT ![Head(fs)] = @ + 1])

\* The post-start hook, run by the server once it serves: the factory of the
\* server configuration when there is one, then the registered factories.
PostStartHook ==
    /\ pc = "serving"
    /\ InformersHook \in postStartHooks
    /\ \E core \in BOOLEAN :
          LET st0 == IF core THEN [started EXCEPT ![CoreFactory] = @ + 1] ELSE started
              r   == StartFactories(sharedInformerFactories, st0)
          IN  /\ started' = r.started
              /\ IF r.panic THEN Fail("panic: nil SharedInformerFactory")
                 ELSE pc' = "running" /\ UNCHANGED outcome
    /\ UNCHANGED <<scheme, groupVersions, apiGroupFns, groupName, fnIdx, apiGroupMap,
                   lastInfo, installed, serving, postStartHooks,
                   extraAdmissionInitializers, sharedInformerFactories,
                   strategyVars, mergeVars>>

(***************************************************************************)
(* The specifications.                                                     *)
(***************************************************************************)
StrategyInit ==
    /\ kind \in Kinds /\ stored \in Objects /\ lastCall = NoCall
    /\ history = NoHistory(stored)
    /\ heap = EmptyHeap /\ heap0 = EmptyHeap /\ ma = 0 /\ mb = 0 /\ mc = 0
    /\ scheme = {} /\ groupVersions = <<>> /\ apiGroupFns = <<>> /\ pc = "idle"
    /\ groupName = "" /\ fnIdx = 1 /\ apiGroupMap = EmptyMap /\ lastInfo = NoInfo
    /\ installed = <<>> /\ serving = FALSE /\ postStartHooks = {} /\ outcome = ""
    /\ extraAdmissionInitializers = NoCallback /\ sharedInformerFactories = <<>>
    /\ started = NoneStarted

StrategyNext ==
    \/ \E name \in {"testobjs", "testobjs/status"}, in \in Objects : Update(name, in)
    \/ \E base \in BaseNames : GenerateNameCall(base)
    \/ \E s \in DecoratorValues(kind), ctx \in CtxValues, in \in Objects :
          PrepareForUpdaterStrategyCall(s, ctx, in)
    \/ \E in \in Objects : statusPrepareForUpdateCall(in)

SpecStrategy == StrategyInit /\ [][StrategyNext]_vars

MergeInit ==
    /\ \E a, b \in OuterValues : \E sa, sb \in BOOLEAN :
          /\ sa => CanShare(a)
          /\ sb => CanShare(b)
          /\ heap = AllocMap(AllocMap(EmptyHeap, a, sa), b, sb)
    /\ heap0 = heap /\ ma = 1 /\ mb = 2 /\ mc = 0
    /\ kind = NoKind /\ stored = NoObject /\ lastCall = NoCall
    /\ history = NoHistory(NoObject)
    /\ scheme = {} /\ groupVersions = <<>> /\ apiGroupFns = <<>> /\ pc = "idle"
    /\ groupName = "" /\ fnIdx = 1 /\ apiGroupMap = EmptyMap /\ lastInfo = NoInfo
    /\ installed = <<>> /\ serving = FALSE /\ postStartHooks = {} /\ outcome = ""
    /\ extraAdmissionInitializers = NoCallback /\ sharedInformerFactories = <<>>
    /\ started = NoneStarted

MergeNext == Merge

SpecMerge == MergeInit /\ [][MergeNext]_vars

\* The maps whose entries all hold one store: the adapter of one registration.
MapsOf(store) ==
    UNION {[D -> UNION {[E -> {store}] : E \in SUBSET ResourceNames}] :
              D \in SUBSET Versions}

\* SpecAlgebra: the merge of any map a with a map b of one further adapter.
AlgebraInit ==
    /\ \E a \in OuterValues, b \in MapsOf(NumStores + 1) :
          heap = AllocMap(AllocMap(EmptyHeap, a, FALSE), b, FALSE)
    /\ heap0 = heap /\ ma = 1 /\ mb = 2 /\ mc = 0
    /\ kind = NoKind /\ stored = NoObject /\ lastCall = NoCall
    /\ history = NoHistory(NoObject)
    /\ scheme = {} /\ groupVersions = <<>> /\ apiGroupFns = <<>> /\ pc = "idle"
    /\ groupName = "" /\ fnIdx = 1 /\ apiGroupMap = EmptyMap /\ lastInfo = NoInfo
    /\ installed = <<>> /\ serving = FALSE /\ postStartHooks = {} /\ outcome = ""
    /\ extraAdmissionInitializers = NoCallback /\ sharedInformerFactories = <<>>
    /\ started = NoneStarted

AlgebraNext == Merge

SpecAlgebra == AlgebraInit /\ [][AlgebraNext]_vars

HandlerValues == {Resource(t, gvs) : t \in Templates,
                                     gvs \in SeqsUpTo(GroupVersionValues, MaxHandlerGVs)}

\* NewBuilder(scheme).
Init ==
    /\ scheme \in SchemeValues
    /\ groupVersions = <<>> /\ apiGroupFns = <<>> /\ pc = "build"
    /\ groupName = "" /\ fnIdx = 1 /\ apiGroupMap = EmptyMap /\ lastInfo = NoInfo
    /\ installed = <<>> /\ serving = FALSE /\ postStartHooks = {} /\ outcome = ""
    /\ extraAdmissionInitializers = NoCallback /\ sharedInformerFactories = <<>>
    /\ started = NoneStarted
    /\ kind = NoKind /\ stored = NoObject /\ lastCall = NoCall
    /\ history = NoHistory(NoObject)
    /\ heap = EmptyHeap /\ heap0 = EmptyHeap /\ ma = 0 /\ mb = 0 /\ mc = 0

Next ==
    \/ \E gvs \in SeqsUpTo(GroupVersionValues, MaxHandlerGVs) \ {<<>>} : WithGroupVersions(gvs)
    \/ \E rh \in HandlerValues : With(rh)
    \/ Execute
    \/ RunE_Configure
    \/ RunE_BuildGroup
    \/ RunE_GroupsBuilt
    \/ RunE_Install
    \/ RunE_AddPostStartHook
    \/ RunE_Serve
    \/ PostStartHook

Spec == Init /\ [][Next]_vars

\* SpecInformers: a builder with one registered resource, to which the
\* informer factories and the admission callback are added before Execute.
InformersInit ==
    /\ scheme = GroupVersionValues
    /\ groupVersions = <<GV("a", "v1")>>
    /\ apiGroupFns = <<Resource(Template("a", "foos", TRUE), <<GV("a", "v1")>>)>>
    /\ pc = "build"
    /\ groupName = "" /\ fnIdx = 1 /\ apiGroupMap = EmptyMap /\ lastInfo = NoInfo
    /\ installed = <<>> /\ serving = FALSE /\ postStartHooks = {} /\ outcome = ""
    /\ extraAdmissionInitializers = NoCallback /\ sharedInformerFactories = <<>>
    /\ started = NoneStarted
    /\ kind = NoKind /\ stored = NoObject /\ lastCall = NoCall
    /\ history = NoHistory(NoObject)
    /\ heap = EmptyHeap /\ heap0 = EmptyHeap /\ ma = 0 /\ mb = 0 /\ mc = 0

InformersNext ==
    \/ \E f \in Factories \cup {NilFactory} : WithSharedInformerFactory(f)
    \/ \E f \in CallbackValues \cup {NoCallback} : WithExtraAdmissionInitializers(f)
    \/ Execute
    \/ RunE_Configure
    \/ RunE_BuildGroup
    \/ RunE_GroupsBuilt
    \/ RunE_Install
    \/ RunE_AddPostStartHook
    \/ RunE_Serve
    \/ PostStartHook

SpecInformers == InformersInit /\ [][InformersNext]_vars

(***************************************************************************)
(* The status split (SpecStrategy).                                        *)
(***************************************************************************)
StatusUpdate == lastCall.op = "update" /\ lastCall.via = "testobjs/status"
MainUpdate   == lastCall.op = "update" /\ lastCall.via = "testobjs"

\* C1: an update through the <resource>/status entry of a kind with the
\* status capability commits {spec of the stored object, status of the
\* incoming object}, whatever the four values are.
C1_StatusSplit ==
    StatusUpdate =>
        /\ kind.status
        /\ stored = lastCall.obj
        /\ stored.spec = lastCall.old.spec
        /\ stored.status = lastCall.in.status

C1_Witness ==
    /\ StatusUpdate
    /\ lastCall.in.spec # lastCall.old.spec
    /\ lastCall.in.status # lastCall.old.status

\* C2: an update through the main entry of a kind with the status capability
\* commits {spec of the incoming object, status of the stored object}; the
\* other incoming fields are kept, and the object's own PrepareForUpdate hook
\* (when the type has one) has run, once.
C2_MainUpdateKeepsStatus ==
    (MainUpdate /\ kind.status) =>
        /\ stored = lastCall.obj
        /\ stored.spec = lastCall.in.spec
        /\ stored.labels = lastCall.in.labels
        /\ stored.status = lastCall.old.status
        /\ lastCall.oldAfter = lastCall.old
        /\ kind.prepareForUpdater =>
              /\ stored.flag
              /\ Len(SelectSeq(lastCall.trace, LAMBDA c : c = "PrepareForUpdate")) = 1

C2_Witness ==
    /\ MainUpdate /\ kind.status /\ kind.prepareForUpdater
    /\ lastCall.in.spec # lastCall.old.spec
    /\ lastCall.in.status # lastCall.old.status
    /\ ~lastCall.in.flag /\ stored.flag

\* C10: GenerateName(base) returns base for a type without NameGenerator and
\* the NameGenerator's result, base + "-GEN", for a type with it, whatever
\* other capabilities the type has.
C10_GenerateName ==
    lastCall.op = "GenerateName" =>
        lastCall.name = IF kind.nameGenerator THEN lastCall.base \o "-GEN"
                        ELSE lastCall.base

C10_Witness ==
    /\ lastCall.op = "GenerateName" /\ lastCall.base = "base"
    /\ lastCall.name = "base-GEN"
    /\ kind.status /\ ~kind.prepareForUpdater

(***************************************************************************)
(* The merge (SpecMerge).                                                  *)
(***************************************************************************)
InputA == Deref(heap0, ma)
InputB == Deref(heap0, mb)
Merged == Deref(heap, mc)

NamesOf(m, v) == IF v \in DOMAIN m THEN DOMAIN m[v] ELSE {}

\* C3: the result has the version keys of a or b, under each version the
\* resource names of a or b for that version, and, when the (version, name)
\* keys of a and b are disjoint, under each key the store of its input.
C3_MergeIsUnion ==
    mc # 0 =>
        /\ DOMAIN Merged = (DOMAIN InputA) \cup (DOMAIN InputB)
        /\ \A v \in DOMAIN Merged :
              DOMAIN Merged[v] = NamesOf(InputA, v) \cup NamesOf(InputB, v)
        /\ Keys(InputA) \cap Keys(InputB) = {} =>
              \A k \in Keys(Merged) :
                  Merged[k[1]][k[2]] = IF k \in Keys(InputA) THEN InputA[k[1]][k[2]]
                                       ELSE InputB[k[1]][k[2]]

C3_Witness ==
    /\ mc # 0
    /\ Keys(InputA) \cap Keys(InputB) = {}
    /\ \E v \in (DOMAIN InputA) \cap (DOMAIN InputB) :
          InputA[v] # EmptyMap /\ InputB[v] # EmptyMap
    /\ Cardinality(DOMAIN Merged) = 2

\* C4: the call leaves every map that existed before it, the outer maps of a
\* and b and each of their inner maps, with the keys and values it had.
C4_InputsNotMutated ==
    mc # 0 =>
        /\ \A r \in 1..Len(heap0.outer) : heap.outer[r] = heap0.outer[r]
        /\ \A i \in 1..Len(heap0.inner) : heap.inner[i] = heap0.inner[i]

C4_Witness ==
    /\ mc # 0
    /\ \E k \in Keys(InputA) \cap Keys(InputB) :
          InputA[k[1]][k[2]] # InputB[k[1]][k[2]]
    /\ \E v \in DOMAIN InputA : NamesOf(InputB, v) \ NamesOf(InputA, v) # {}

\* C5: merge(a, {}) = a, merge({}, b) = b, and so merge({}, {}) = {}.
C5_MergeWithEmpty ==
    mc # 0 =>
        /\ InputB = EmptyMap => Merged = InputA
        /\ InputA = EmptyMap => Merged = InputB

C5_Witness ==
    /\ mc # 0 /\ InputB = EmptyMap
    /\ Keys(InputA) # {}
    /\ \E v \in DOMAIN InputA : InputA[v] = EmptyMap
    /\ Merged = InputA

(***************************************************************************)
(* Registration and assembly (Spec).                                       *)
(***************************************************************************)
Assembled == pc \in {"install", "hook", "serving"}

\* What handler i contributes when its store can be built.
Contribution(i) ==
    apiGroupFn(apiGroupFns[i], scheme, TRUE, i).info.VersionedResourcesStorageMap

HandlerGroup(i) == apiGroupFns[i].t.gr.Group

\* Handlers i < j of one group contribute the same (version, resource-name).
Collision(i, j) ==
    /\ i < j /\ HandlerGroup(i) = HandlerGroup(j)
    /\ Keys(Contribution(i)) \cap Keys(Contribution(j)) # {}

\* The handlers RunE has invoked and merged.
Processed == 1..(fnIdx - 1)

\* C6 as stated: a collision between two registrations is reported as an
\* error at assembly time, so assembly never gets to install with one.
C6_CollisionIsAnError ==
    Assembled => ~ \E i, j \in Processed : Collision(i, j)

\* C6 amended: no error is raised for a collision; under every key the merged
\* map holds the store of the last registration of the group that
\* contributes the key.
C6_LaterRegistrationWins ==
    \A g \in DOMAIN apiGroupMap : \A k \in Keys(apiGroupMap[g]) :
        \E i \in Processed :
            /\ HandlerGroup(i) = g /\ k \in Keys(Contribution(i))
            /\ apiGroupMap[g][k[1]][k[2]] = Contribution(i)[k[1]][k[2]]
            /\ \A j \in Processed :
                  (j > i /\ HandlerGroup(j) = g) => k \notin Keys(Contribution(j))

C6_Witness ==
    /\ serving
    /\ \E i, j \in Processed : Collision(i, j)

GroupsDiffer ==
    \E i, j \in 1..Len(groupVersions) : groupVersions[i].Group # groupVersions[j].Group

\* C7: once Execute has run its validation, it has panicked, before the
\* server is configured, exactly when two accumulated group-versions have
\* different group names.
C7_GroupMismatchPanics ==
    pc # "build" =>
        (GroupsDiffer <=>
            (pc = "done" /\ installed = <<>> /\ ~serving
             /\ outcome = "panic: all exposed resources expected to have the same group"))

Mismatched(i) ==
    \E k \in 1..Len(apiGroupFns[i].gvs) : apiGroupFns[i].gvs[k].Group # HandlerGroup(i)

\* C8: with a handler registered whose group-versions hold a group other
\* than its template's, the loop over the handlers never gets past that
\* handler, no API group is installed and the server never serves.
C8_RegistrationMismatchFatal ==
    \A i \in 1..Len(apiGroupFns) :
        Mismatched(i) =>
            /\ fnIdx <= i
            /\ ~Assembled /\ installed = <<>> /\ ~serving

C8_Witness ==
    /\ outcome = "panic: unexpected group mismatch"
    /\ pc = "done" /\ installed = <<>> /\ ~serving
    /\ Mismatched(fnIdx)

\* C9: the storage map a registration returns has the requested versions as
\* its keys and under each of them the resource entry, plus the /status
\* entry exactly when the template has the status capability.
C9_Contribution ==
    lastInfo.called =>
        LET vsm == lastInfo.info.VersionedResourcesStorageMap
            t   == lastInfo.rh.t
            gvs == lastInfo.rh.gvs
        IN  /\ DOMAIN vsm = {gvs[k].Version : k \in 1..Len(gvs)}
            /\ \A v \in DOMAIN vsm :
                  /\ DOMAIN vsm[v] = IF t.status
                                     THEN {t.gr.Resource, t.gr.Resource \o "/status"}
                                     ELSE {t.gr.Resource}
                  /\ (t.gr.Resource \o "/status") \in DOMAIN vsm[v] <=> t.status

C9_Witness ==
    /\ lastInfo.called /\ lastInfo.rh.t.status
    /\ Len(lastInfo.rh.gvs) = 2
    /\ DOMAIN lastInfo.info.VersionedResourcesStorageMap = {"v1", "v2"}
    /\ "foos/status" \in DOMAIN lastInfo.info.VersionedResourcesStorageMap["v1"]

(***************************************************************************)
(* SpecAdapter: the strategy adapter over a type with any combination of   *)
(* the optional capabilities, and the calls the serving layer makes on it. *)
(* The adapter keeps no state between calls: a behaviour makes one call.   *)
(***************************************************************************)
\* An allowance capability is absent, or present and returning false or true.
AllowanceValues == {"absent", "false", "true"}

\* The types the adapter wraps (GenerateName is exercised in SpecStrategy).
AdapterKinds == [status : BOOLEAN, prepareForUpdater : BOOLEAN, nameGenerator : {FALSE},
                 prepareForCreater : BOOLEAN, canonicalizer : BOOLEAN,
                 validater : BOOLEAN, validateUpdater : BOOLEAN,
                 allowCreateOnUpdater : AllowanceValues,
                 allowUnconditionalUpdater : AllowanceValues]

\* allowCreate.AllowCreateOnUpdate / allowUnconditional.AllowUnconditionalUpdate:
\* the value the type's method returns.
AllowCreateOnUpdate(t) == t.allowCreateOnUpdater = "true"

AllowUnconditionalUpdate(t) == t.allowUnconditionalUpdater = "true"

\* An AllowCreateOnUpdate that is also granted by the other allowance.
DefaultStrategy_AllowCreateOnUpdateFromEither(s) ==
    \/ s.Object.allowCreateOnUpdater # "absent" /\ AllowCreateOnUpdate(s.Object)
    \/ s.Object.allowUnconditionalUpdater # "absent" /\ AllowUnconditionalUpdate(s.Object)

\* DefaultStrategy.AllowCreateOnUpdate: the wrapped object's
\* AllowCreateOnUpdater, else false.
DefaultStrategy_AllowCreateOnUpdate(s) ==
    IF s.Object.allowCreateOnUpdater # "absent" THEN AllowCreateOnUpdate(s.Object)
    ELSE FALSE

\* DefaultStrategy.AllowUnconditionalUpdate: the wrapped object's
\* AllowUnconditionalUpdater, else false.
DefaultStrategy_AllowUnconditionalUpdate(s) ==
    IF s.Object.allowUnconditionalUpdater # "absent" THEN AllowUnconditionalUpdate(s.Object)
    ELSE FALSE

AllowCreateOnUpdateCall ==
    /\ lastCall.op = "none"
    /\ lastCall' = [NoCall EXCEPT !.op = "AllowCreateOnUpdate",
                       !.ret = DefaultStrategy_AllowCreateOnUpdate(NewDefaultStrategy(kind))]
    /\ UNCHANGED <<kind, stored, history, mergeVars, builderVars>>

AllowUnconditionalUpdateCall ==
    /\ lastCall.op = "none"
    /\ lastCall' = [NoCall EXCEPT !.op = "AllowUnconditionalUpdate",
                       !.ret = DefaultStrategy_AllowUnconditionalUpdate(NewDefaultStrategy(kind))]
    /\ UNCHANGED <<kind, stored, history, mergeVars, builderVars>>

\* field.Invalid(field.NewPath("spec"), "bad", "invalid").
InvalidSpec == [Type |-> "FieldValueInvalid", Field |-> "spec", BadValue |-> "bad",
                Detail |-> "invalid"]

\* testObj.Validate: the error list of the type's own validation.
Validate(t) == <<InvalidSpec>>

\* testObj.ValidateUpdate.
ValidateUpdate(t, old) == <<InvalidSpec>>

\* A Validate that reports the object's errors under one aggregated error.
DefaultStrategy_ValidateWrapping(k, obj) ==
    IF k.validater
    THEN [errs |-> <<[Type |-> "InternalError", Field |-> "", BadValue |-> "",
                      Detail |-> "validation failed", Causes |-> Validate(obj)]>>,
          trace |-> <<"Validate">>]
    ELSE [errs |-> <<>>, trace |-> <<>>]

\* DefaultStrategy.Validate: the object's Validater, else no errors.
DefaultStrategy_Validate(k, obj) ==
    IF k.validater THEN [errs |-> Validate(obj), trace |-> <<"Validate">>]
    ELSE [errs |-> <<>>, trace |-> <<>>]

\* DefaultStrategy.ValidateUpdate: the object's ValidateUpdater, else no errors.
DefaultStrategy_ValidateUpdate(k, obj, old) ==
    IF k.validateUpdater
    THEN [errs |-> ValidateUpdate(obj, old), trace |-> <<"ValidateUpdate">>]
    ELSE [errs |-> <<>>, trace |-> <<>>]

\* The serving layer validates an object to create.
ValidateCall(in) ==
    /\ lastCall.op = "none"
    /\ LET r == DefaultStrategy_Validate(kind, in)
       IN  lastCall' = [NoCall EXCEPT !.op = "Validate", !.in = in, !.obj = in,
                                      !.ret = r.errs, !.trace = r.trace]
    /\ UNCHANGED <<kind, stored, history, mergeVars, builderVars>>

\* The serving layer validates an update of the stored object.
ValidateUpdateCall(in) ==
    /\ lastCall.op = "none"
    /\ LET r == DefaultStrategy_ValidateUpdate(kind, in, stored)
       IN  lastCall' = [NoCall EXCEPT !.op = "ValidateUpdate", !.in = in, !.obj = in,
                                      !.old = stored, !.oldAfter = stored,
                                      !.ret = r.errs, !.trace = r.trace]
    /\ UNCHANGED <<kind, stored, history, mergeVars, builderVars>>

\* The stored objects of the adapter calls: every spec and status.
StoredObjects == {o \in Objects : o.labels = "L0" /\ ~o.flag}

\* testObj.PrepareForCreate: the type's own create hook.
PrepareForCreate(t) == [t EXCEPT !.flag = TRUE]

\* testObj.Canonicalize.
Canonicalize(t) == [t EXCEPT !.flag = TRUE]

\* A PrepareForCreate that runs the hook without probing for the capability.
DefaultStrategy_PrepareForCreateUnprobed(k, obj) ==
    [obj |-> PrepareForCreate(obj), trace |-> <<"PrepareForCreate">>]

\* DefaultStrategy.PrepareForCreate: the object's PrepareForCreater, else nothing.
DefaultStrategy_PrepareForCreate(k, obj) ==
    IF k.prepareForCreater
    THEN [obj |-> PrepareForCreate(obj), trace |-> <<"PrepareForCreate">>]
    ELSE [obj |-> obj, trace |-> <<>>]

\* DefaultStrategy.Canonicalize: the object's Canonicalizer, else nothing.
DefaultStrategy_Canonicalize(k, obj) ==
    IF k.canonicalizer
    THEN [obj |-> Canonicalize(obj), trace |-> <<"Canonicalize">>]
    ELSE [obj |-> obj, trace |-> <<>>]

\* The serving layer prepares an object to create.
PrepareForCreateCall(in) ==
    /\ lastCall.op = "none"
    /\ LET r == DefaultStrategy_PrepareForCreate(kind, in)
       IN  lastCall' = [NoCall EXCEPT !.op = "PrepareForCreate", !.in = in,
                                      !.obj = r.obj, !.trace = r.trace]
    /\ UNCHANGED <<kind, stored, history, mergeVars, builderVars>>

\* The serving layer prepares an update of the stored object.
PrepareForUpdateCall(in) ==
    /\ lastCall.op = "none"
    /\ LET r == DefaultStrategy_PrepareForUpdate(kind, in, stored)
       IN  lastCall' = [NoCall EXCEPT !.op = "PrepareForUpdate", !.in = in,
                                      !.old = stored, !.obj = r.obj,
                                      !.oldAfter = r.old, !.trace = r.trace]
    /\ UNCHANGED <<kind, stored, history, mergeVars, builderVars>>

\* The serving layer canonicalizes an object after validation.
CanonicalizeCall(in) ==
    /\ lastCall.op = "none"
    /\ LET r == DefaultStrategy_Canonicalize(kind, in)
       IN  lastCall' = [NoCall EXCEPT !.op = "Canonicalize", !.in = in,
                                      !.obj = r.obj, !.trace = r.trace]
    /\ UNCHANGED <<kind, stored, history, mergeVars, builderVars>>

AdapterInit ==
    /\ kind \in AdapterKinds /\ stored \in StoredObjects /\ lastCall = NoCall
    /\ history = NoHistory(NoObject)
    /\ heap = EmptyHeap /\ heap0 = EmptyHeap /\ ma = 0 /\ mb = 0 /\ mc = 0
    /\ scheme = {} /\ groupVersions = <<>> /\ apiGroupFns = <<>> /\ pc = "idle"
    /\ groupName = "" /\ fnIdx = 1 /\ apiGroupMap = EmptyMap /\ lastInfo = NoInfo
    /\ installed = <<>> /\ serving = FALSE /\ postStartHooks = {} /\ outcome = ""
    /\ extraAdmissionInitializers = NoCallback /\ sharedInformerFactories = <<>>
    /\ started = NoneStarted

AdapterNext ==
    \/ AllowCreateOnUpdateCall
    \/ AllowUnconditionalUpdateCall
    \/ \E in \in Objects : ValidateCall(in)
    \/ \E in \in Objects : ValidateUpdateCall(in)
    \/ \E in \in Objects : PrepareForCreateCall(in)
    \/ \E in \in Objects : PrepareForUpdateCall(in)
    \/ \E in \in Objects : CanonicalizeCall(in)

SpecAdapter == AdapterInit /\ [][AdapterNext]_vars

\* C11: AllowCreateOnUpdate() and AllowUnconditionalUpdate() return false for
\* a type without the capability and the capability's own value for a type
\* with it, each whatever the other capability is.
C11_Allowances ==
    /\ lastCall.op = "AllowCreateOnUpdate" =>
          lastCall.ret = (kind.allowCreateOnUpdater = "true")
    /\ lastCall.op = "AllowUnconditionalUpdate" =>
          lastCall.ret = (kind.allowUnconditionalUpdater = "true")

C11_Witness ==
    /\ lastCall.op = "AllowCreateOnUpdate" /\ lastCall.ret = FALSE
    /\ kind.allowCreateOnUpdater = "absent"
    /\ kind.allowUnconditionalUpdater = "true"

\* C12: Validate and ValidateUpdate return the empty error list for a type
\* without the Validater / ValidateUpdater capability, and otherwise the
\* list the capability returned, as it is, from one call of the capability.
C12_Validation ==
    /\ lastCall.op = "Validate" =>
          /\ lastCall.ret = IF kind.validater THEN Validate(lastCall.in) ELSE <<>>
          /\ lastCall.trace = IF kind.validater THEN <<"Validate">> ELSE <<>>
    /\ lastCall.op = "ValidateUpdate" =>
          /\ lastCall.ret = IF kind.validateUpdater
                            THEN ValidateUpdate(lastCall.in, lastCall.old) ELSE <<>>
          /\ lastCall.trace = IF kind.validateUpdater THEN <<"ValidateUpdate">> ELSE <<>>

C12_Witness ==
    /\ lastCall.op = "Validate" /\ kind.validater /\ ~kind.validateUpdater
    /\ lastCall.ret = <<InvalidSpec>>

\* The number of times capability method c was invoked by the last call.
Invocations(c) == Len(SelectSeq(lastCall.trace, LAMBDA x : x = c))

\* The type of the adapter implements none of the optional capabilities.
NoCapabilities ==
    /\ ~kind.status /\ ~kind.prepareForUpdater /\ ~kind.nameGenerator
    /\ ~kind.prepareForCreater /\ ~kind.canonicalizer
    /\ ~kind.validater /\ ~kind.validateUpdater
    /\ kind.allowCreateOnUpdater = "absent" /\ kind.allowUnconditionalUpdater = "absent"

\* C13: PrepareForCreate, PrepareForUpdate and Canonicalize leave the objects
\* of a type without capabilities as they were passed, and invoke a present
\* PrepareForCreater / PrepareForUpdater / Canonicalizer once, on the object
\* passed in.
C13_PrepareAndCanonicalize ==
    /\ lastCall.op = "PrepareForCreate" =>
          /\ Invocations("PrepareForCreate") = IF kind.prepareForCreater THEN 1 ELSE 0
          /\ lastCall.obj = IF kind.prepareForCreater THEN PrepareForCreate(lastCall.in)
                            ELSE lastCall.in
    /\ lastCall.op = "Canonicalize" =>
          /\ Invocations("Canonicalize") = IF kind.canonicalizer THEN 1 ELSE 0
          /\ lastCall.obj = IF kind.canonicalizer THEN Canonicalize(lastCall.in)
                            ELSE lastCall.in
    /\ lastCall.op = "PrepareForUpdate" =>
          /\ Invocations("PrepareForUpdate") = IF kind.prepareForUpdater THEN 1 ELSE 0
          /\ lastCall.oldAfter = lastCall.old
          /\ (~kind.prepareForUpdater /\ ~kind.status) => lastCall.obj = lastCall.in
          /\ (kind.prepareForUpdater /\ ~kind.status) =>
                lastCall.obj = PrepareForUpdate(lastCall.in, lastCall.old)
    /\ (NoCapabilities /\ lastCall.op \in {"PrepareForCreate", "PrepareForUpdate", "Canonicalize"}) =>
          lastCall.obj = lastCall.in /\ lastCall.oldAfter = lastCall.old /\ lastCall.trace = <<>>

C13_Witness ==
    /\ NoCapabilities /\ lastCall.op = "PrepareForUpdate"
    /\ lastCall.in.status # lastCall.old.status /\ lastCall.in.spec # lastCall.old.spec
    /\ lastCall.obj = lastCall.in

(***************************************************************************)
(* SpecVersion: the emulation-version mapping Execute registers.  Go's     *)
(* uint and int are modelled at IntBits bits, with their wrap-around.      *)
(***************************************************************************)
IntBits == 4
MaxKubeMinor == 5

UintValues == 0..(2^IntBits - 1)

\* uint(i) of an int i.
ToUint(i) == i % (2^IntBits)

\* The int with the bits of x: int(u) of a uint u, and the result of an int
\* operation whose mathematical value is x.
ToInt(x) == ((x + 2^(IntBits - 1)) % (2^IntBits)) - 2^(IntBits - 1)

MajorMinor(major, minor) == [isNil |-> FALSE, Major |-> major, Minor |-> minor]

NilVersion == [isNil |-> TRUE, Major |-> 0, Minor |-> 0]

\* version.MustParse(baseversion.DefaultKubeBinaryVersion): "1.<minor>".
KubeVersions == {MajorMinor(1, m) : m \in 0..MaxKubeMinor}

VersionInputs == {MajorMinor(major, minor) : major \in 0..2, minor \in UintValues}

\* Version.GreaterThan.
GreaterThan(v, w) == v.Major > w.Major \/ (v.Major = w.Major /\ v.Minor > w.Minor)

\* Version.OffsetMinor(offset int): the minor moved by offset, not below 0.
OffsetMinor(v, offset) ==
    LET diff == ToUint(ToInt(0 - offset))
    IN  MajorMinor(v.Major,
                   IF offset >= 0 THEN ToUint(v.Minor + ToUint(offset))
                   ELSE IF diff < v.Minor THEN v.Minor - diff ELSE 0)

\* A mapping that also answers for the other majors.
versionToKubeVersionAnyMajor(ver, kubeVer) ==
    LET mappedVer == OffsetMinor(kubeVer, ToInt(ToInt(ver.Minor) - 2))
    IN  IF GreaterThan(mappedVer, kubeVer) THEN kubeVer ELSE mappedVer

\* versionToKubeVersion.
versionToKubeVersion(ver, kubeVer) ==
    IF ver.Major # 1 THEN NilVersion
    ELSE LET offset    == ToInt(ToInt(ver.Minor) - 2)     \* int(ver.Minor()) - 2
             mappedVer == OffsetMinor(kubeVer, offset)
         IN  IF GreaterThan(mappedVer, kubeVer) THEN kubeVer ELSE mappedVer

\* The registry maps an emulation version of the component.
MapVersion(ver, kubeVer) ==
    /\ lastCall.op = "none"
    /\ lastCall' = [NoCall EXCEPT !.op = "versionToKubeVersion",
                                  !.arg = [ver |-> ver, kubeVer |-> kubeVer],
                                  !.ret = versionToKubeVersion(ver, kubeVer)]
    /\ UNCHANGED <<kind, stored, history, mergeVars, builderVars>>

VersionInit ==
    /\ kind = NoKind /\ stored = NoObject /\ lastCall = NoCall
    /\ history = NoHistory(NoObject)
    /\ heap = EmptyHeap /\ heap0 = EmptyHeap /\ ma = 0 /\ mb = 0 /\ mc = 0
    /\ scheme = {} /\ groupVersions = <<>> /\ apiGroupFns = <<>> /\ pc = "idle"
    /\ groupName = "" /\ fnIdx = 1 /\ apiGroupMap = EmptyMap /\ lastInfo = NoInfo
    /\ installed = <<>> /\ serving = FALSE /\ postStartHooks = {} /\ outcome = ""
    /\ extraAdmissionInitializers = NoCallback /\ sharedInformerFactories = <<>>
    /\ started = NoneStarted

VersionNext == \E ver \in VersionInputs, kubeVer \in KubeVersions : MapVersion(ver, kubeVer)

SpecVersion == VersionInit /\ [][VersionNext]_vars

Mapped == lastCall.op = "versionToKubeVersion"

\* C14: for a version of major 1 the mapping returns a version that is not
\* greater than the kube version, and for minor >= 2 the kube version itself.
C14_VersionClamp ==
    (Mapped /\ lastCall.arg.ver.Major = 1) =>
        /\ ~lastCall.ret.isNil
        /\ ~GreaterThan(lastCall.ret, lastCall.arg.kubeVer)
        /\ lastCall.arg.ver.Minor >= 2 => lastCall.ret = lastCall.arg.kubeVer

\* C15: the mapping returns nil for every version whose major is not 1 and
\* a version for every version whose major is 1.
C15_OnlyMajorOne ==
    Mapped => (lastCall.ret.isNil <=> lastCall.arg.ver.Major # 1)

C15_Witness ==
    /\ Mapped /\ lastCall.arg.ver = MajorMinor(2, 3)
    /\ lastCall.ret = NilVersion

(***************************************************************************)
(* The informer start-up (SpecInformers).                                  *)
(***************************************************************************)
\* The number of registrations of factory f.
Registrations(f) ==
    Cardinality({i \in 1..Len(sharedInformerFactories) : sharedInformerFactories[i] = f})

\* C16: the post-start hook does not panic on an absent (nil) collaborator,
\* and once it has run every registered SharedInformerFactory has been
\* started once for its registration.
C16_InformersStartedOnce ==
    /\ outcome # "panic: nil SharedInformerFactory"
    /\ pc = "running" => \A f \in Factories : started[f] = Registrations(f)
    /\ pc \notin {"running", "done"} => \A f \in Factories : started[f] = 0

(***************************************************************************)
(* SpecStore: the functions of the store factory, each called once on      *)
(* inputs drawn from bounded sets.                                         *)
(***************************************************************************)
LabelSets == {EmptyMap, Put(EmptyMap, "foo", "bar"), Put(Put(EmptyMap, "foo", "bar"), "x", "y")}

ObjectMetas == [Name : {"", "myname"}, Namespace : {"", "ns"}, Labels : LabelSets]

\* The runtime.Objects handed to GetAttrs: whether the value implements
\* resource.Object, what its NamespaceScoped answers, and its ObjectMeta.
RuntimeObjects == [isObject : BOOLEAN, namespaced : BOOLEAN, meta : ObjectMetas]

\* generic.ObjectMetaFieldsSet(objectMeta, hasNamespaceField).
ObjectMetaFieldsSet(om, hasNamespaceField) ==
    IF hasNamespaceField
    THEN Put(Put(EmptyMap, "metadata.name", om.Name), "metadata.namespace", om.Namespace)
    ELSE Put(EmptyMap, "metadata.name", om.Name)

\* SelectableFields.
SelectableFields(om) == ObjectMetaFieldsSet(om, TRUE)

\* A GetAttrs that does not probe for resource.Object.
GetAttrsUnprobed(obj) ==
    [err |-> FALSE, isNil |-> FALSE,
     labels |-> obj.meta.Labels, fields |-> SelectableFields(obj.meta)]

\* GetAttrs: (nil, nil, error) for a value that is no resource.Object.
GetAttrs(obj) ==
    IF ~obj.isObject
    THEN [err |-> TRUE, isNil |-> TRUE, labels |-> EmptyMap, fields |-> EmptyMap]
    ELSE [err |-> FALSE, isNil |-> FALSE,
          labels |-> obj.meta.Labels, fields |-> SelectableFields(obj.meta)]

\* The store extracts the attributes of an object for a selector.
GetAttrsCall(obj) ==
    /\ lastCall.op = "none"
    /\ lastCall' = [NoCall EXCEPT !.op = "GetAttrs", !.arg = obj, !.ret = GetAttrs(obj)]
    /\ UNCHANGED <<kind, stored, history, mergeVars, builderVars>>

GroupResources == {[Group |-> "test.example.com", Resource |-> "testresources"],
                   [Group |-> "arc", Resource |-> "testobjs"]}

SingularNames == {"", "testresource", "tr"}

ShortNameLists == {<<>>, <<"tr">>, <<"tr", "tres">>}

\* The resource types NewStore's strategy wraps: with or without
\* GetSingularName and ShortNames, each returning any of the values.
StoreTemplates ==
    {[gr |-> g] : g \in GroupResources}
    \cup {[gr |-> g, singularName |-> n] : g \in GroupResources, n \in SingularNames}
    \cup {[gr |-> g, shortNames |-> l] : g \in GroupResources, l \in ShortNameLists}
    \cup {[gr |-> g, singularName |-> n, shortNames |-> l] :
             g \in GroupResources, n \in SingularNames, l \in ShortNameLists}

\* Resource builds the store of a type.
NewStoreCall(t, optsOk) ==
    /\ lastCall.op = "none"
    /\ lastCall' = [NoCall EXCEPT !.op = "NewStore",
                       !.arg = [gr |-> t.gr, strategy |-> NewDefaultStrategy(t),
                                optsOk |-> optsOk],
                       !.ret = NewStore(t.gr, NewDefaultStrategy(t), optsOk, 1)]
    /\ UNCHANGED <<kind, stored, history, mergeVars, builderVars>>

StoreInit ==
    /\ kind = NoKind /\ stored = NoObject /\ lastCall = NoCall
    /\ history = NoHistory(NoObject)
    /\ heap = EmptyHeap /\ heap0 = EmptyHeap /\ ma = 0 /\ mb = 0 /\ mc = 0
    /\ scheme = {} /\ groupVersions = <<>> /\ apiGroupFns = <<>> /\ pc = "idle"
    /\ groupName = "" /\ fnIdx = 1 /\ apiGroupMap = EmptyMap /\ lastInfo = NoInfo
    /\ installed = <<>> /\ serving = FALSE /\ postStartHooks = {} /\ outcome = ""
    /\ extraAdmissionInitializers = NoCallback /\ sharedInformerFactories = <<>>
    /\ started = NoneStarted

StoreNext ==
    \/ \E obj \in RuntimeObjects : GetAttrsCall(obj)
    \/ \E t \in StoreTemplates, optsOk \in BOOLEAN : NewStoreCall(t, optsOk)

SpecStore == StoreInit /\ [][StoreNext]_vars

\* C17: GetAttrs returns an error, and neither labels nor fields, for an
\* object without the metadata accessor (no resource.Object); for an object
\* with it, no error, the labels of the object and a field set holding
\* metadata.name and, for a namespaced kind, metadata.namespace, with the
\* name and the namespace of the object.
C17_GetAttrs ==
    lastCall.op = "GetAttrs" =>
        LET obj == lastCall.arg
            r   == lastCall.ret
        IN  /\ ~obj.isObject => (r.err /\ r.isNil)
            /\ obj.isObject =>
                  /\ ~r.err /\ ~r.isNil
                  /\ r.labels = obj.meta.Labels
                  /\ "metadata.name" \in DOMAIN r.fields
                  /\ r.fields["metadata.name"] = obj.meta.Name
                  /\ obj.namespaced =>
                        /\ "metadata.namespace" \in DOMAIN r.fields
                        /\ r.fields["metadata.namespace"] = obj.meta.Namespace

C17_Witness ==
    /\ lastCall.op = "GetAttrs" /\ lastCall.arg.isObject /\ lastCall.arg.namespaced
    /\ lastCall.arg.meta = [Name |-> "myname", Namespace |-> "ns",
                            Labels |-> Put(EmptyMap, "foo", "bar")]
    /\ lastCall.ret.fields["metadata.namespace"] = "ns"
    /\ lastCall.ret.labels["foo"] = "bar"

\* NewStore returned an adapter.
StoreBuilt == lastCall.op = "NewStore" /\ ~lastCall.ret.err

\* The type the strategy of the last NewStore call wraps.
StoreObject == lastCall.arg.strategy.Object

HasSingularName == "singularName" \in DOMAIN StoreObject /\ StoreObject.singularName # ""

HasShortNames == "shortNames" \in DOMAIN StoreObject /\ StoreObject.shortNames # <<>>

\* C18: the adapter's singular identity is (group of gr, singular name) when
\* the strategy has a singular name that is not empty, and gr otherwise; its
\* default identity is gr.
C18_SingularIdentity ==
    StoreBuilt =>
        /\ Unwrap(lastCall.ret.store).DefaultQualifiedResource = lastCall.arg.gr
        /\ Unwrap(lastCall.ret.store).SingularQualifiedResource =
              IF HasSingularName
              THEN [Group |-> lastCall.arg.gr.Group, Resource |-> StoreObject.singularName]
              ELSE lastCall.arg.gr

C18_Witness ==
    /\ StoreBuilt /\ HasSingularName /\ ~HasShortNames
    /\ lastCall.ret.store.SingularQualifiedResource =
          [Group |-> "test.example.com", Resource |-> "testresource"]
    /\ lastCall.ret.store.DefaultQualifiedResource =
          [Group |-> "test.example.com", Resource |-> "testresources"]

\* The store NewStore builds around a strategy before any wrapping.
PlainStore ==
    [DefaultQualifiedResource  |-> lastCall.arg.gr,
     SingularQualifiedResource |->
         IF HasSingularName
         THEN [Group |-> lastCall.arg.gr.Group, Resource |-> StoreObject.singularName]
         ELSE lastCall.arg.gr,
     PredicateFunc  |-> lastCall.arg.strategy,
     TableConvertor |-> lastCall.arg.strategy,
     CreateStrategy |-> lastCall.arg.strategy,
     UpdateStrategy |-> lastCall.arg.strategy,
     DeleteStrategy |-> lastCall.arg.strategy,
     backend |-> <<lastCall.arg.gr, 1>>,
     ptr |-> <<1, "store">>]

\* C19: the adapter NewStore returns reports short names exactly when the
\* strategy has a short-names list that is not empty, it reports that list,
\* and the store behind it is the store the unwrapped adapter would be.
C19_ShortNamesWrapper ==
    StoreBuilt =>
        /\ StoreShortNames(lastCall.ret.store).ok <=> HasShortNames
        /\ HasShortNames =>
              StoreShortNames(lastCall.ret.store).names = StoreObject.shortNames
        /\ Unwrap(lastCall.ret.store) = PlainStore
        /\ ~HasShortNames => lastCall.ret.store = PlainStore

C19_Witness ==
    /\ StoreBuilt /\ HasShortNames /\ HasSingularName
    /\ StoreShortNames(lastCall.ret.store).names = <<"tr", "tres">>
    /\ lastCall.ret.store.Store = PlainStore

\* C20: when the options resolver cannot complete the store, NewStore
\* returns an error and no adapter, for a type with short names as for one
\* without; when that happens to a registered handler the run ends with
\* Resource's panic, with no API group installed and the server not serving.
C20_StoreConstructionFailure ==
    /\ \A i \in 1..Len(apiGroupFns) :
          LET t == apiGroupFns[i].t
              r == NewStore(t.gr, NewDefaultStrategy(t), FALSE, i)
          IN  r.err /\ r.store = NilStore
    /\ outcome = "panic: NewStore failed" =>
          /\ pc = "done" /\ fnIdx <= Len(apiGroupFns)
          /\ installed = <<>> /\ ~serving

C20_Witness ==
    /\ outcome = "panic: NewStore failed" /\ fnIdx = 2
    /\ "shortNames" \in DOMAIN apiGroupFns[2].t
    /\ "shortNames" \notin DOMAIN apiGroupFns[1].t
    /\ installed = <<>> /\ ~serving

(***************************************************************************)
(* The order of assembly (Spec).                                           *)
(***************************************************************************)
\* The apiGroupFn of handler i returns a group without a group name.
YieldsEmptyGroup(i) ==
    LET r == apiGroupFn(apiGroupFns[i], scheme, TRUE, i)
    IN  r.panic = "" /\ \A gv \in r.info.PrioritizedVersions : gv.Group = ""

\* C21: with a registered handler whose apiGroupFn yields a group with an
\* empty group name, the loop over the handlers never gets past it, no API
\* group is installed, the informer hook is not registered and the server
\* does not serve; once RunE has got such a group it has failed with the
\* empty-group-name error.
C21_EmptyGroupNameFails ==
    /\ \A i \in 1..Len(apiGroupFns) :
          YieldsEmptyGroup(i) =>
              /\ fnIdx <= i
              /\ installed = <<>> /\ postStartHooks = {} /\ ~serving
    /\ (lastInfo.called /\ \A gv \in lastInfo.info.PrioritizedVersions : gv.Group = "") =>
          /\ pc = "done" /\ outcome = "error: empty group name is not allowed"
          /\ installed = <<>> /\ postStartHooks = {} /\ ~serving

C21_Witness ==
    /\ outcome = "error: empty group name is not allowed"
    /\ fnIdx = 2 /\ YieldsEmptyGroup(2) /\ ~YieldsEmptyGroup(1)
    /\ DOMAIN apiGroupMap # {}
    /\ installed = <<>> /\ postStartHooks = {} /\ ~serving

(***************************************************************************)
(* The status split over sequences of updates (SpecStrategy).              *)
(***************************************************************************)
\* C22: for a kind with the status capability, after any sequence of
\* updates committed through the main entry and the /status entry, each
\* prepared against the object stored at that moment, the stored spec is the
\* spec of the last main-entry update (the initial one if there was none) and
\* the stored status is the status of the last /status update (the initial
\* one if there was none).
C22_SpecStatusIsolation ==
    kind.status =>
        /\ stored.spec = history.spec
        /\ stored.status = history.status

C22_Witness ==
    /\ kind.status /\ history.main /\ history.sub
    /\ MainUpdate
    /\ lastCall.in.status # lastCall.old.status
    /\ lastCall.in.spec # lastCall.old.spec
    /\ stored.status = lastCall.old.status
    /\ stored.spec = lastCall.in.spec

(***************************************************************************)
(* The /status entry as a view of the main adapter (Spec).                 *)
(***************************************************************************)
\* The fields of a store other than its update strategy and its own address.
SharedFields(store) == (DOMAIN store) \ {"UpdateStrategy", "ptr"}

\* C23: in the storage map a registration of a kind with the status
\* capability returns, the /status entry is a store of its own that has the
\* physical store and every other field of the main adapter (the store
\* behind the short-names wrapper when there is one) except the update
\* strategy, which decorates the main adapter's; the main adapter's update
\* strategy is still the undecorated strategy of the kind.
C23_StatusEntryIsPolicyView ==
    (lastInfo.called /\ lastInfo.rh.t.status) =>
        LET t   == lastInfo.rh.t
            vsm == lastInfo.info.VersionedResourcesStorageMap
        IN  \A v \in DOMAIN vsm :
               LET main   == Unwrap(vsm[v][t.gr.Resource])
                   status == vsm[v][t.gr.Resource \o "/status"]
               IN  /\ status.backend = main.backend /\ main.backend # <<>>
                   /\ DOMAIN status = DOMAIN main
                   /\ \A f \in SharedFields(main) : status[f] = main[f]
                   /\ status.ptr # main.ptr
                   /\ main.UpdateStrategy = NewDefaultStrategy(t)
                   /\ status.UpdateStrategy.type = "PrepareForUpdaterStrategy"
                   /\ status.UpdateStrategy.RESTUpdateStrategy = main.UpdateStrategy
                   /\ StoreShortNames(vsm[v][t.gr.Resource]).ok <=> "shortNames" \in DOMAIN t

C23_Witness ==
    /\ lastInfo.called /\ lastInfo.rh.t.status
    /\ "shortNames" \in DOMAIN lastInfo.rh.t
    /\ "v1" \in DOMAIN lastInfo.info.VersionedResourcesStorageMap
    /\ LET m == lastInfo.info.VersionedResourcesStorageMap["v1"]
       IN  /\ "Store" \in DOMAIN m["bars"]
           /\ m["bars/status"].backend = m["bars"].Store.backend
           /\ m["bars/status"].UpdateStrategy # m["bars"].Store.UpdateStrategy

(***************************************************************************)
(* The decorator of the /status entry (SpecStrategy).                      *)
(***************************************************************************)
DecoratorCalled == lastCall.op = "PrepareForUpdaterStrategy.PrepareForUpdate"

\* What the override of the last call leaves when it runs on the arguments
\* of the call.
OverrideAlone ==
    OverrideFn(lastCall.arg.s.OverrideFn, lastCall.arg.ctx, lastCall.in, lastCall.old)

ProcessedOf(g) == {i \in Processed : HandlerGroup(i) = g}

AllInstalled == pc \in {"hook", "serving", "running"}

\* C25: the map RunE holds for a group has the (version, resource-name)
\* keys of every invoked registration of the group and no other key, in
\* whatever order the registrations were made; no group is installed twice,
\* and once the install loop is over every group of a registration is
\* installed.
C25_GroupInstalledOnceWithUnion ==
    /\ DOMAIN apiGroupMap = {HandlerGroup(i) : i \in Processed}
    /\ \A g \in DOMAIN apiGroupMap :
          Keys(apiGroupMap[g]) = UNION {Keys(Contribution(i)) : i \in ProcessedOf(g)}
    /\ \A i, j \in 1..Len(installed) : installed[i] = installed[j] => i = j
    /\ InstalledGroups \subseteq DOMAIN apiGroupMap
    /\ AllInstalled =>
          /\ Processed = 1..Len(apiGroupFns)
          /\ InstalledGroups = {HandlerGroup(i) : i \in 1..Len(apiGroupFns)}

C25_Witness ==
    /\ pc = "serving" /\ installed = <<"a">>
    /\ Len(apiGroupFns) = 2
    /\ apiGroupFns[1].t.gr.Resource = "bars" /\ apiGroupFns[2].t.gr.Resource = "foos"
    /\ Keys(Contribution(1)) \cap Keys(Contribution(2)) = {}
    /\ Keys(apiGroupMap["a"]) = Keys(Contribution(1)) \cup Keys(Contribution(2))
    /\ Keys(Contribution(1)) # {} /\ Keys(Contribution(2)) # {}

(***************************************************************************)
(* The order of the version mapping (SpecVersion).                         *)
(***************************************************************************)
\* C26: the version mapped for 1.b is not below the version mapped for any
\* 1.a with a <= b, under the same kube version, and 1.2 maps to the kube
\* version itself.
C26_MappingMonotonic ==
    (Mapped /\ lastCall.arg.ver.Major = 1) =>
        /\ \A a \in UintValues :
              a <= lastCall.arg.ver.Minor =>
                  ~GreaterThan(versionToKubeVersion(MajorMinor(1, a), lastCall.arg.kubeVer),
                               lastCall.ret)
        /\ lastCall.arg.ver.Minor = 2 => lastCall.ret = lastCall.arg.kubeVer

(***************************************************************************)
(* Colliding registrations (Spec).                                         *)
(***************************************************************************)
\* The keys two handlers both contribute.
CommonKeys(i, j) == Keys(Contribution(i)) \cap Keys(Contribution(j))

\* C27: when RunE has got past two registrations of one group that
\* contribute the same (version, resource-name) key (the merge made the loop
\* fail at neither), the merge of the two maps holds under the key the
\* adapter of its second argument, and the map of the group holds the
\* adapter of the later registration, which is the one installed.
C27_SecondArgumentWins ==
    \A i, j \in Processed :
        Collision(i, j) =>
            /\ HandlerGroup(j) \in DOMAIN apiGroupMap
            /\ (pc = "done" /\ ~serving /\ installed = <<>>) => fnIdx \notin {i, j}
            /\ \A k \in CommonKeys(i, j) :
                  /\ MergedStorageMap(Contribution(i), Contribution(j))[k[1]][k[2]]
                        = Contribution(j)[k[1]][k[2]]
                  /\ (\A l \in Processed : l > j => k \notin Keys(Contribution(l))) =>
                        apiGroupMap[HandlerGroup(j)][k[1]][k[2]] = Contribution(j)[k[1]][k[2]]

C27_Witness ==
    /\ pc = "serving" /\ installed = <<"a">> /\ Len(apiGroupFns) = 2
    /\ Collision(1, 2)
    /\ <<"v1", "foos">> \in CommonKeys(1, 2)
    /\ apiGroupMap["a"]["v1"]["foos"].ptr = <<2, "store">>
    /\ Contribution(1)["v1"]["foos"].ptr = <<1, "store">>

(***************************************************************************)
(* The algebra of the merge (SpecAlgebra).                                 *)
(***************************************************************************)
\* The third maps of the associativity check: the maps of one more adapter.
ThirdMaps == MapsOf(NumStores + 2)

\* C28: merge(merge(a, b), c) = merge(a, merge(b, c)) for the maps a and b of
\* the call and every third map c, overlapping keys included, and
\* merge(a, b) = merge(b, a) when a and b have no (version, resource-name)
\* key in common.
C28_MergeAssociative ==
    mc # 0 =>
        /\ \A c \in ThirdMaps :
              MergedStorageMap(Merged, c)
                  = MergedStorageMap(InputA, MergedStorageMap(InputB, c))
        /\ Keys(InputA) \cap Keys(InputB) = {} =>
              Merged = MergedStorageMap(InputB, InputA)

C28_Witness ==
    /\ mc # 0
    /\ \E k \in Keys(InputA) \cap Keys(InputB) :
          /\ InputA[k[1]][k[2]] # InputB[k[1]][k[2]]
          /\ Merged[k[1]][k[2]] = InputB[k[1]][k[2]]
    /\ Cardinality(Keys(Merged)) >= 3
    /\ Keys(InputA) \ Keys(InputB) # {} /\ Keys(InputB) \ Keys(InputA) # {}

(***************************************************************************)
(* The frame of the status override (SpecStrategy).                        *)
(***************************************************************************)
\* C29: after the status override has run on (obj, old), obj and old are
\* equal in every field; obj has the spec, the metadata and every other
\* non-status field of the stored object and the incoming status; old is
\* the stored object with the incoming status.
C29_OverrideFrame ==
    lastCall.op = "statusPrepareForUpdate" =>
        /\ lastCall.obj = lastCall.oldAfter
        /\ lastCall.obj.spec = lastCall.old.spec
        /\ lastCall.obj.labels = lastCall.old.labels
        /\ lastCall.obj.flag = lastCall.old.flag
        /\ lastCall.obj.status = lastCall.in.status
        /\ lastCall.oldAfter = [lastCall.old EXCEPT !.status = lastCall.in.status]

C29_Witness ==
    /\ lastCall.op = "statusPrepareForUpdate"
    /\ lastCall.in.spec # lastCall.old.spec
    /\ lastCall.in.labels # lastCall.old.labels
    /\ lastCall.in.status # lastCall.old.status
    /\ lastCall.in.flag # lastCall.old.flag
    /\ lastCall.oldAfter # lastCall.old
    /\ lastCall.obj.labels = lastCall.old.labels

(***************************************************************************)
(* The order of the steps of RunE (Spec).                                  *)
(***************************************************************************)
\* Some SharedInformerFactory has been started.
SomeStarted == \E f \in DOMAIN started : started[f] > 0

\* The run failed before the server was run.
FailedEarly == outcome \notin {"", "panic: nil SharedInformerFactory"}

\* The steps are taken in the order of RunE.
C30_StepOrder ==
    /\ installed # <<>> => fnIdx = Len(apiGroupFns) + 1
    /\ postStartHooks # {} =>
          /\ fnIdx = Len(apiGroupFns) + 1
          /\ InstalledGroups = DOMAIN apiGroupMap
    /\ serving => InformersHook \in postStartHooks
    /\ SomeStarted => serving
    /\ FailedEarly => (~serving /\ ~SomeStarted)

\* A handler is invoked when it is the next one in registration order, and
\* then nothing is installed yet.
C30_InvokedInOrder ==
    (fnIdx' # fnIdx \/ lastInfo' # lastInfo) =>
        /\ fnIdx \in 1..Len(apiGroupFns)
        /\ lastInfo'.rh = apiGroupFns[fnIdx]
        /\ fnIdx' \in {fnIdx, fnIdx + 1}
        /\ installed = <<>> /\ postStartHooks = {} /\ ~serving

\* C30: RunE invokes the registered apiGroupFns in registration order and
\* all of them before the first API group is installed; the informer hook is
\* registered only once every group is installed, the server serves only
\* after that, and no SharedInformerFactory is started unless the server
\* serves: a run that fails at an earlier step never serves and starts none.
C30_AssemblyOrder == []C30_StepOrder /\ [][C30_InvokedInOrder]_vars

C30_Witness ==
    /\ pc = "running" /\ serving /\ started[CoreFactory] = 1
    /\ Len(apiGroupFns) = 2 /\ Len(installed) = 2
    /\ HandlerGroup(1) # HandlerGroup(2)
    /\ InformersHook \in postStartHooks

====
